---- MODULE Spec2Model ----
(***************************************************************************)
(* Interview Copilot API: the request pipeline of app.py (REST handlers    *)
(* and the /ws/audio WebSocket handler) over the storage operations of     *)
(* db_operations.py, the question detector and the engine wrappers.        *)
(*                                                                         *)
(* Texts are sequences of one-character strings, so that len(), lower(),   *)
(* strip() and the substring test are computed, not assumed.  A Python     *)
(* call that can raise yields a result record: Ok(v) or Raise(type, msg).  *)
(*                                                                         *)
(* The two tables are held without foreign-key enforcement.  An exception  *)
(* no handler catches is answered by the server: the bare 500 of a REST    *)
(* call, the close code 1011 of a WebSocket connection.  The speech and    *)
(* language models are inputs: each call of an action carries the outcome  *)
(* the engine has for it (a text, or a failure).                           *)
(***************************************************************************)
EXTENDS Integers, Sequences, FiniteSets, TLC

(* ------------------------------ bounds -------------------------------- *)
\* requests the clients make in one run: REST calls and WebSocket frames
MaxStimuli == 2
\* direct calls of the storage operations (DbSpec)
MaxDbCalls == 3

(* --------------------------- Python values ---------------------------- *)
\* Python's None, where a text could stand instead (a text is a sequence of
\* one-character strings, so this one-element sequence is no text)
None == <<"<None>">>

\* bool(x) for a text or None
Truthy(x) == x # None /\ x # <<>>

Ok(v) == [raised |-> FALSE, val |-> v, exc |-> "", msg |-> ""]

Raise(type, message) == [raised |-> TRUE, val |-> None, exc |-> type, msg |-> message]

\* getattr(obj, name) on an object held as a record of its attributes
GetAttr(obj, name) ==
  IF name \in DOMAIN obj THEN Ok(obj[name])
  ELSE Raise("AttributeError", name)

\* A text is a sequence of characters.  A character that TLA+ can write is
\* held as itself; any other is held under a name: a letter by its description
\* ("o-acute" is the letter o with an acute accent), a control or space
\* character by its Python escape ("\\x0b", "\\u2003").

\* str.strip(): the characters str.isspace() accepts removed at both ends
Whitespace ==
  {" ", "\t", "\n", "\r", "\f", "\\x0b", "\\x1c", "\\x1d", "\\x1e", "\\x1f",
   "\\x85", "\\xa0", "\\u1680", "\\u2000", "\\u2001", "\\u2002", "\\u2003",
   "\\u2004", "\\u2005", "\\u2006", "\\u2007", "\\u2008", "\\u2009", "\\u200a",
   "\\u2028", "\\u2029", "\\u202f", "\\u205f", "\\u3000"}

RECURSIVE LStrip(_)
LStrip(s) == IF s # <<>> /\ Head(s) \in Whitespace THEN LStrip(Tail(s)) ELSE s

RECURSIVE RStrip(_)
RStrip(s) ==
  IF s # <<>> /\ s[Len(s)] \in Whitespace THEN RStrip(SubSeq(s, 1, Len(s) - 1)) ELSE s

Strip(s) == RStrip(LStrip(s))

\* str.lower() on texts of the Latin letters A-Z, the Polish letters, e-acute,
\* the Kelvin sign and I with a dot above, the character that lowers to two;
\* every other character of such a text is left as it is
UpperChars ==
  <<"A", "B", "C", "D", "E", "F", "G", "H", "I", "J", "K", "L", "M",
    "N", "O", "P", "Q", "R", "S", "T", "U", "V", "W", "X", "Y", "Z",
    "O-acute", "Z-dot", "L-stroke", "S-acute",
    "A-ogonek", "C-acute", "E-ogonek", "N-acute", "Z-acute", "E-acute",
    "Kelvin", "I-dot">>

LowerChars ==
  <<"a", "b", "c", "d", "e", "f", "g", "h", "i", "j", "k", "l", "m",
    "n", "o", "p", "q", "r", "s", "t", "u", "v", "w", "x", "y", "z",
    "o-acute", "z-dot", "l-stroke", "s-acute",
    "a-ogonek", "c-acute", "e-ogonek", "n-acute", "z-acute", "e-acute",
    "k", "i">>

ToLower ==
  [c \in {UpperChars[i] : i \in 1..Len(UpperChars)} |->
     LowerChars[CHOOSE i \in 1..Len(UpperChars) : UpperChars[i] = c]]

\* the characters c.lower() is made of
LowerChar(c) ==
  IF c = "I-dot" THEN <<ToLower[c], "combining-dot">>
  ELSE IF c \in DOMAIN ToLower THEN <<ToLower[c]>>
  ELSE <<c>>

RECURSIVE Lower(_)
Lower(s) == IF s = <<>> THEN <<>> ELSE LowerChar(Head(s)) \o Lower(Tail(s))

\* Python's `m in s` for texts
Contains(s, m) ==
  \E i \in 1..(Len(s) - Len(m) + 1) : SubSeq(s, i, i + Len(m) - 1) = m

(* -------------------- core/question_detector.py ----------------------- *)
QUESTION_MARKERS ==
    <<
       <<"w", "h", "a", "t">>,
       <<"w", "h", "y">>,
       <<"h", "o", "w">>,
       <<"w", "h", "e", "n">>,
       <<"w", "h", "e", "r", "e">>,
       <<"w", "h", "o">>,
       <<"w", "h", "i", "c", "h">>,
       <<"c", "a", "n", " ", "y", "o", "u">>,
       <<"c", "o", "u", "l", "d", " ", "y", "o", "u">>,
       <<"w", "o", "u", "l", "d", " ", "y", "o", "u">>,
       <<"j", "a", "k">>,
       <<"d", "l", "a", "c", "z", "e", "g", "o">>,
       <<"k", "i", "e", "d", "y">>,
       <<"g", "d", "z", "i", "e">>,
       <<"k", "t", "o">>,
       <<"k", "t", "o-acute", "r", "y">>,
       <<"c", "z", "y">>,
       <<"m", "o", "z-dot", "e", "s", "z">>,
       <<"m", "o-acute", "g", "l-stroke", "b", "y", "s-acute">>
    >>

MIN_QUESTION_LENGTH == 8

\* QuestionDetector.__init__: `markers or QUESTION_MARKERS`, `min_length or
\* MIN_QUESTION_LENGTH`; None and every falsy argument select the default
QuestionDetector(markers, min_length) ==
  [markers |-> IF markers = None \/ markers = <<>> THEN QUESTION_MARKERS ELSE markers,
   min_length |-> IF min_length = 0 THEN MIN_QUESTION_LENGTH ELSE min_length]

is_question_any_length(self, text) ==
  IF ~Truthy(text) THEN FALSE
  ELSE LET text_lower == Lower(text)
       IN \E k \in 1..Len(self.markers) : Contains(text_lower, self.markers[k])

is_question(self, text) ==
  IF ~Truthy(text) \/ Len(text) < self.min_length THEN FALSE
  ELSE LET text_lower == Lower(text)
       IN \E k \in 1..Len(self.markers) : Contains(text_lower, self.markers[k])

\* app.py: the module-level detector, built with the defaults
question_detector == QuestionDetector(None, 0)

(* ------------------------------ config.py ----------------------------- *)
\* The deployments checked: REQUIRE_AUTH on or off, GEMINI_API_KEY set or empty
Configs == [require_auth : BOOLEAN, gemini_api_key : {"", "key"}]

(* ------------------------------- auth.py ------------------------------ *)
Users == {"u1", "u2"}

\* a token is held by what jwt.decode makes of it: a payload with the user's
\* id as "sub", a payload with no "sub", or a JWTError (bad signature, expired)
TokenOf(user_id) == <<"jwt", user_id>>

TOKEN_NO_SUB == <<"jwt-no-sub">>

TOKEN_INVALID == <<"jwt-invalid">>

Tokens == {TokenOf(u) : u \in Users} \cup {TOKEN_NO_SUB, TOKEN_INVALID}

\* a resolved principal; NoUser is the None the resolvers return instead
TokenData(user_id) == [some |-> TRUE, user_id |-> user_id]

NoUser == [some |-> FALSE, user_id |-> ""]

decode_token(token) ==
  IF \E u \in Users : token = TokenOf(u)
  THEN Ok(TokenData(token[2]))
  ELSE Raise("HTTPException", "401 Invalid authentication credentials")

\* an Authorization header: its scheme prefix and the rest; no header is the
\* empty scheme with no token
NoHeader == [scheme |-> "", token |-> <<>>]

Bearer(token) == [scheme |-> "Bearer ", token |-> token]

get_optional_user(authorization) ==
  IF authorization = NoHeader THEN NoUser
  ELSE IF authorization.scheme # "Bearer " THEN NoUser
  ELSE LET r == decode_token(authorization.token)
       IN IF r.raised THEN NoUser ELSE r.val

get_websocket_user(token) ==
  IF token = <<>> THEN NoUser
  ELSE LET r == decode_token(token)
       IN IF r.raised THEN NoUser ELSE r.val

\* a session key that falls back on the first user's
SessionId_first_user(user) == IF user.some THEN user.user_id ELSE "u1"

\* app.py: session_id = current_user.user_id if current_user else "anonymous"
SessionId(user) == IF user.some THEN user.user_id ELSE "anonymous"

SessionKeys == Users \cup {"anonymous"}

(* ------------------------------ models.py ----------------------------- *)
\* the Context dataclass: its fields, each defaulting to ''
ContextFields == {"cv", "company_name", "position"}

\* Context(**kwargs): the generated __init__ takes the declared fields only
Context(kwargs) ==
  IF DOMAIN kwargs \subseteq ContextFields
  THEN Ok([f \in ContextFields |-> IF f \in DOMAIN kwargs THEN kwargs[f] ELSE <<>>])
  ELSE Raise("TypeError", "__init__() got an unexpected keyword argument")

\* Context()
EmptyContext == [f \in ContextFields |-> <<>>]

(* --------------------------- db_operations.py ------------------------- *)
\* The two tables are sequences of rows in insertion (id) order.
\* A context row: [user_id, cv, company, position, updated_at];
\* a history row: [user_id, question, answer, created_at].

\* .filter(user_id == u).order_by(updated_at.desc()).first(): the index of the
\* row, 0 when there is none
FirstContextRow(user_id, contexts) ==
  LET mine == {i \in 1..Len(contexts) : contexts[i].user_id = user_id}
  IN IF mine = {} THEN 0
     ELSE CHOOSE i \in mine : \A j \in mine : contexts[j].updated_at <= contexts[i].updated_at

get_context_db(user_id, contexts) ==
  LET i == FirstContextRow(user_id, contexts)
  IN IF i # 0
     THEN Context([cv |-> contexts[i].cv,
                   company |-> contexts[i].company,
                   position |-> contexts[i].position])
     ELSE Ok(EmptyContext)

\* A Session holds the attribute writes made on its objects and not yet
\* flushed: for the id of each such row, the written attributes.
NoWrites == <<>>

\* the rows as the Session's objects show them
SessionRows(contexts, writes) ==
  [i \in 1..Len(contexts) |->
     IF i \in DOMAIN writes
     THEN [f \in DOMAIN contexts[i] |->
             IF f \in DOMAIN writes[i] THEN writes[i][f] ELSE contexts[i][f]]
     ELSE contexts[i]]

\* the rows the flush of a commit updates: those a write gave a new value
Flushed(contexts, writes) ==
  {i \in DOMAIN writes : \E f \in DOMAIN writes[i] : writes[i][f] # contexts[i][f]}

\* db.commit() at time now: the flush writes each such row, and the column's
\* onupdate=datetime.utcnow sets its updated_at
commit(contexts, writes, now) ==
  [i \in 1..Len(contexts) |->
     IF i \in Flushed(contexts, writes)
     THEN [SessionRows(contexts, writes)[i] EXCEPT !.updated_at = now]
     ELSE contexts[i]]

\* lines 60-62 on a row's object: the attributes assigned, in order, before
\* the first attribute `context` lacks
AssignedFrom(context) ==
  LET cv == GetAttr(context, "cv")
      company == GetAttr(context, "company")
      position == GetAttr(context, "position")
  IN IF cv.raised THEN NoWrites
     ELSE IF company.raised THEN [cv |-> cv.val]
     ELSE IF position.raised THEN [cv |-> cv.val, company |-> company.val]
     ELSE [cv |-> cv.val, company |-> company.val, position |-> position.val]

\* what a failed update_context leaves in the Session: on a stored row, the
\* attributes assigned before the exception, over those already held
update_context_writes(user_id, context, contexts, writes) ==
  LET i == FirstContextRow(user_id, contexts)
      new == AssignedFrom(context)
      old == IF i \in DOMAIN writes THEN writes[i] ELSE NoWrites
  IN IF i = 0 \/ new = NoWrites THEN writes
     ELSE [j \in DOMAIN writes \cup {i} |->
             IF j = i
             THEN [f \in DOMAIN old \cup DOMAIN new |->
                     IF f \in DOMAIN new THEN new[f] ELSE old[f]]
             ELSE writes[j]]

\* update_context(user_id, context, db) at time now: the table after the
\* commit, or the exception that leaves the table as it was and in the
\* Session the writes of update_context_writes
update_context_db(user_id, context, contexts, now) ==
  LET i == FirstContextRow(user_id, contexts)
      cv == GetAttr(context, "cv")
      company == GetAttr(context, "company")
      position == GetAttr(context, "position")
  IN IF cv.raised THEN cv
     ELSE IF company.raised THEN company
     ELSE IF position.raised THEN position
     ELSE IF i # 0
     THEN Ok([contexts EXCEPT ![i] = [user_id |-> user_id, cv |-> cv.val,
                                      company |-> company.val,
                                      position |-> position.val,
                                      updated_at |-> now]])
     ELSE Ok(Append(contexts, [user_id |-> user_id, cv |-> cv.val,
                               company |-> company.val,
                               position |-> position.val,
                               updated_at |-> now]))

add_history_entry_unkeyed(user_id, question, answer, history, now) ==
  Append(history, [user_id |-> "anonymous", question |-> question,
                   answer |-> answer, created_at |-> now])

add_history_entry(user_id, question, answer, history, now) ==
  Append(history, [user_id |-> user_id, question |-> question,
                   answer |-> answer, created_at |-> now])

\* the orders .order_by(created_at.desc()) may return the rows `ids` in: the
\* rows of equal created_at come in an order the database chooses
HistoryOrders(ids, history) ==
  {o \in [1..Cardinality(ids) -> ids] :
     /\ \A a, b \in 1..Cardinality(ids) : a # b => o[a] # o[b]
     /\ \A a, b \in 1..Cardinality(ids) :
          a < b => history[o[a]].created_at >= history[o[b]].created_at}

DEFAULT_HISTORY_LIMIT == 100

\* datetime.isoformat(): the text of an instant (one text per instant)
isoformat(t) == <<"iso", t>>

\* get_history(user_id, db, limit) read in the order `order`
get_history_db(user_id, history, limit, order) ==
  LET n == IF Len(order) < limit THEN Len(order) ELSE limit
  IN [k \in 1..n |-> [question |-> history[order[k]].question,
                      answer |-> history[order[k]].answer,
                      timestamp |-> isoformat(history[order[k]].created_at)]]

HistoryIds(user_id, history) == {i \in 1..Len(history) : history[i].user_id = user_id}

clear_history(user_id, history) ==
  SelectSeq(history, LAMBDA row : row.user_id # user_id)

(* ------------------------ core/transcription.py ----------------------- *)
\* What the Whisper model does with one buffer: it raises, or it returns a
\* raw text.  TranscriptionEngine.transcribe turns both a failure and an
\* empty text into None.
EngineRaise == [kind |-> "raise", text |-> <<>>]

\* a failure of the model whose exception carries the text `message`
EngineRaiseWith(message) == [kind |-> "raise", text |-> message]

EngineText(t) == [kind |-> "text", text |-> t]

transcribe(outcome) ==
  IF outcome.kind = "raise" THEN None
  ELSE LET text == Strip(outcome.text)
       IN IF text # <<>> THEN text ELSE None

(* ----------------------- core/context_manager.py ---------------------- *)
\* ContextManager(): self.context = context or Context()
ContextManager == [context |-> [cv |-> <<>>, company_name |-> <<>>, position |-> <<>>]]

\* the fixed persona block of build_system_prompt, held as one literal
DEFAULT_PERSONA == <<"<persona: ekspert od rozmow rekrutacyjnych; ZASADY>">>

\* build_system_prompt emitting the company section ahead of the CV section
build_system_prompt_company_first(self, kwargs) ==
  IF DOMAIN kwargs # {}
  THEN Raise("TypeError", "build_system_prompt() got an unexpected keyword argument")
  ELSE Ok(DEFAULT_PERSONA
          \o (IF self.context.company_name # <<>>
              THEN <<"\nFIRMA: ">> \o self.context.company_name \o <<"\n">> ELSE <<>>)
          \o (IF self.context.cv # <<>>
              THEN <<"\n\nTWOJE CV:\n">> \o self.context.cv \o <<"\n">> ELSE <<>>)
          \o (IF self.context.position # <<>>
              THEN <<"\nSTANOWISKO: ">> \o self.context.position \o <<"\n">> ELSE <<>>))

\* build_system_prompt(self) called with the keyword arguments kwargs: the
\* method declares no parameter but self
build_system_prompt(self, kwargs) ==
  IF DOMAIN kwargs # {}
  THEN Raise("TypeError", "build_system_prompt() got an unexpected keyword argument")
  ELSE Ok(DEFAULT_PERSONA
          \o (IF self.context.cv # <<>>
              THEN <<"\n\nTWOJE CV:\n">> \o self.context.cv \o <<"\n">> ELSE <<>>)
          \o (IF self.context.company_name # <<>>
              THEN <<"\nFIRMA: ">> \o self.context.company_name \o <<"\n">> ELSE <<>>)
          \o (IF self.context.position # <<>>
              THEN <<"\nSTANOWISKO: ">> \o self.context.position \o <<"\n">> ELSE <<>>))

build_user_prompt(question) ==
  <<"Pytanie rekrutera: ">> \o question \o <<"\n\nWygeneruj profesjonaln", "a-ogonek",
    " odpowied", "z-acute", ":">>

\* app.py: the module-level manager
context_manager == ContextManager

(* ------------------------ core/gemini_client.py ----------------------- *)
\* the models the client is known to work with
SUPPORTED_MODELS ==
  {"gemini-2.5-pro-exp-03-25", "gemini-2.0-flash-exp", "gemini-1.5-pro",
   "gemini-1.5-flash", "gemini-pro"}

\* GeminiClient(api_key, model) that asks for no key
GeminiClient_keyless(api_key, model) ==
  Ok([model_name |-> model, api_key |-> api_key,
      warned |-> model \notin SUPPORTED_MODELS])

\* GeminiClient(api_key, model): the client, `warned` telling whether the
\* unsupported-model warning was printed
GeminiClient(api_key, model) ==
  IF api_key = "" THEN Raise("ValueError", "GEMINI_API_KEY is required")
  ELSE Ok([model_name |-> model, api_key |-> api_key,
           warned |-> model \notin SUPPORTED_MODELS])

\* generate_response_async, the model answering with `outcome`
generate_response_async_returning(outcome) ==
  IF outcome.kind = "raise"
  THEN Ok(<<"Gemini API Error: ">> \o outcome.text)
  ELSE Ok(Strip(outcome.text))

generate_response_async(outcome) ==
  IF outcome.kind = "raise"
  THEN Raise("Exception", <<"Gemini API Error: ", outcome.text>>)
  ELSE Ok(Strip(outcome.text))

\* stream_response: the deltas it yields when the model streams the chunks
\* `chunks` and fails after `fails_after` of them (Len(chunks) + 1: no failure);
\* a chunk with no text is skipped and a failure ends the stream silently
stream_response(chunks, fails_after) ==
  LET n == IF fails_after <= Len(chunks) THEN fails_after ELSE Len(chunks)
  IN SelectSeq(SubSeq(chunks, 1, n), LAMBDA c : c # <<>>)

(* ------------------------------- state -------------------------------- *)
VARIABLES
  config,               \* config.py: the deployment's settings
  gemini_client,        \* app.py globals: TRUE once the engine is constructed
  transcription_engine,
  interview_contexts,   \* db_models.InterviewContext rows
  interview_history,    \* db_models.InterviewHistory rows
  clock,                \* the last instant datetime.utcnow() returned
  metrics,              \* metrics.py counters
  nreq,                 \* REST requests served so far
  last,                 \* the last REST call: request, response, what it saw
  ws,                   \* the /ws/audio connections
  db_calls,             \* direct storage calls made so far (DbSpec)
  db_last,              \* the last direct storage call and its result
  db_session,           \* the attribute writes the caller's Session holds unflushed
  fn,                   \* the last function called directly (PureSpec)
  loop                  \* the asyncio event loop and its tasks (LoopSpec)

vars == <<config, gemini_client, transcription_engine, interview_contexts,
          interview_history, clock, metrics, nreq, last, ws, db_calls, db_last,
          db_session, fn, loop>>

engine_vars == <<gemini_client, transcription_engine>>

RECURSIVE SumOver(_, _)
SumOver(f, S) ==
  IF S = {} THEN 0 ELSE LET x == CHOOSE x \in S : TRUE IN f[x] + SumOver(f, S \ {x})

\* the requests made so far
Stimuli ==
  nreq + SumOver([c \in DOMAIN ws |-> Len(ws[c].inbox)], DOMAIN ws)

store_vars == <<interview_contexts, interview_history, clock>>

(* ----------------------------- inputs --------------------------------- *)
T_QUESTION == <<"W", "h", "a", "t", " ", "n", "o", "w">>

T_SHORT == <<"w", "h", "y">>

T_STATEMENT == <<"I", " ", "a", "g", "r", "e", "e", "d">>

\* the text of an exception raised inside an engine
UPSTREAM_TEXT == <<"q", "u", "o", "t", "a">>

\* what the Whisper model may do with a buffer
SttOutcomes ==
  {EngineRaise, EngineText(<<" ">>), EngineText(<<" ">> \o T_QUESTION),
   EngineText(T_SHORT), EngineText(T_STATEMENT)}

\* what the Gemini model may do with a prompt
GenOutcomes == {EngineRaise, EngineText(<<" ">>), EngineText(<<"Y", "e", "s", "\n">>)}

\* the generator outcome recorded for a call that never got to a question
GenUnused == [kind |-> "unused", text |-> <<>>]

\* sample lists, one unit being the amplitude 1.0
AudioInputs == {<<>>, <<0, 1>>, <<0, 32767>>, <<-32768, 0>>}

AuthHeaders == {NoHeader, Bearer(TokenOf("u1")), Bearer(TOKEN_INVALID)}

\* the headers sent to the three endpoints of the pipeline
PipelineHeaders == {NoHeader, Bearer(TokenOf("u1"))}

\* how far utcnow() may have moved between two reads
Ticks == {0, 1}

\* An input the handler never reads is not varied: the engine's outcome is
\* drawn only for a call that reaches the engine, the clock's movement only
\* for a call that can write a row.
SttScripts(consumed) == IF consumed THEN SttOutcomes ELSE {EngineRaise}

\* a frame whose dispatch calls the transcription engine
ReachesEngine(frame) ==
  /\ frame.valid
  /\ {"type", "data"} \subseteq DOMAIN frame.obj
  /\ frame.obj.type = "audio"

GenScripts(consumed) == IF consumed THEN GenOutcomes ELSE {GenUnused}

\* the engine outcomes whose transcript the detector takes for a question
SttQuestions == {stt \in SttOutcomes : is_question(question_detector, transcribe(stt))}

\* the generator outcomes that make process_audio write a history row
GenAnswers == {gen \in GenOutcomes : gen.kind = "text" /\ Strip(gen.text) # <<>>}

TicksIf(consumed) == IF consumed THEN Ticks ELSE {0}

(* ------------------------------ metrics ------------------------------- *)
ErrorLabels ==
  {<<"process_audio_error", "/api/process_audio">>, <<"websocket_error", "/ws/audio">>,
   <<"empty_transcription", "/api/transcribe">>,
   <<"transcription_error", "/api/transcribe">>,
   <<"empty_generation", "/api/generate">>, <<"generation_error", "/api/generate">>,
   <<"health_check_error", "/api/health">>}

MetricsZero ==
  [transcription_count |-> 0, generation_count |-> 0, question_detected_count |-> 0,
   error_count |-> [l \in ErrorLabels |-> 0]]

\* the counters after a run that made the increments of `run`
Count(m, run, label) ==
  [transcription_count |-> m.transcription_count + run.transcriptions,
   generation_count |-> m.generation_count + run.generations,
   question_detected_count |-> m.question_detected_count + run.questions,
   error_count |-> [m.error_count EXCEPT ![label] = @ + run.errors]]

(* ---------------------- app.py: initialize_engines -------------------- *)
\* the two globals after the call, or the ValueError of GeminiClient(...)
\* raised before either is assigned
initialize_engines(client, engine, cfg) ==
  LET made == GeminiClient(cfg.gemini_api_key, "gemini-2.5-pro-exp-03-25")
  IN IF ~client /\ made.raised
     THEN [raised |-> TRUE, gemini_client |-> client, transcription_engine |-> engine,
           constructed |-> {}]
     ELSE [raised |-> FALSE, gemini_client |-> TRUE, transcription_engine |-> TRUE,
           constructed |-> (IF client THEN {} ELSE {"gemini_client"})
                           \cup (IF engine THEN {} ELSE {"transcription_engine"})]

(* ------------------------- app.py: responses -------------------------- *)
ProcessAudioResponse(success, question, answer, timestamp, transcription) ==
  [status |-> 200, success |-> success, question |-> question, answer |-> answer,
   timestamp |-> timestamp, transcription |-> transcription]

\* raise HTTPException(status_code, detail=prefix + str(e))
HTTPException(status_code, prefix, message) ==
  [status |-> status_code, detail |-> <<prefix, message>>]

\* an exception no handler catches: the framework's bare 500
ServerError == [status |-> 500, detail |-> <<"Internal Server Error", "">>]

(* ---------------------- app.py: process_audio ------------------------- *)
\* a sample buffer: the samples, each divided by `divisor`
Buffer(samples, divisor) == [samples |-> samples, divisor |-> divisor]

NoBuffer == Buffer(<<>>, 1)

\* ndarray.max() of a non-empty array
ArrayMax(a) == CHOOSE x \in {a[i] : i \in 1..Len(a)} : \A i \in 1..Len(a) : a[i] <= x

\* one call of an engine by a handler: `calls` is "stt_calls" for
\* transcription_engine.transcribe and "gen_calls" for the generator
invoked_again(run, calls) == [run EXCEPT ![calls] = @ + 2]

invoked(run, calls) == [run EXCEPT ![calls] = @ + 1]

\* what one run of the try block saw and did, before any stage has run
RunStart(history) ==
  [resp |-> ServerError, stt_called |-> FALSE, stt_input |-> NoBuffer,
   transcript |-> None, is_q |-> FALSE, gen_called |-> FALSE, history |-> history,
   transcriptions |-> 0, questions |-> 0, generations |-> 0, errors |-> 0,
   stt_calls |-> 0, gen_calls |-> 0]

\* except Exception as e: the error metric and the 500 with str(e) in it
process_audio_except(run, e) ==
  [run EXCEPT !.resp = HTTPException(500, "Processing error: ", e.msg), !.errors = 1]

\* the question branch once the context is at hand: the attribute reads, the
\* prompt, the blocking generation, the history write
process_audio_answer(run, session_id, text, context_data, gen, t1, t2) ==
  LET cv == GetAttr(context_data, "cv")
      company == GetAttr(context_data, "company")
      position == GetAttr(context_data, "position")
      custom == GetAttr(context_data, "custom_system_prompt")
  IN IF cv.raised THEN process_audio_except(run, cv)
     ELSE IF company.raised THEN process_audio_except(run, company)
     ELSE IF position.raised THEN process_audio_except(run, position)
     ELSE IF custom.raised THEN process_audio_except(run, custom)
     ELSE
       LET system_prompt ==
             build_system_prompt(context_manager,
                                 [cv |-> cv.val, company |-> company.val,
                                  position |-> position.val,
                                  custom_system_prompt |-> custom.val])
       IN IF system_prompt.raised THEN process_audio_except(run, system_prompt)
          ELSE
            LET answer == generate_response_async(gen)
                called == [invoked(run, "gen_calls") EXCEPT !.gen_called = TRUE]
            IN IF answer.raised THEN process_audio_except(called, answer)
               ELSE IF Truthy(answer.val)
               THEN [called EXCEPT
                       !.generations = 1,
                       !.history = add_history_entry(session_id, text, answer.val,
                                                     run.history, t2),
                       !.resp = ProcessAudioResponse(TRUE, text, answer.val,
                                                     isoformat(t1), None)]
               ELSE [called EXCEPT
                       !.generations = 1,
                       !.resp = ProcessAudioResponse(TRUE, text, None, None, None)]

\* `if not text:` the return of the empty transcript
process_audio_empty_mistaken(heard) ==
  [heard EXCEPT !.resp = ProcessAudioResponse(FALSE, None, None, None, None)]

process_audio_empty(heard) ==
  [heard EXCEPT !.resp = ProcessAudioResponse(TRUE, None, None, None, None)]

\* the else of `if is_question:` the return of a transcript that asks nothing
process_audio_not_question_dropped(heard, text) ==
  [heard EXCEPT !.resp = ProcessAudioResponse(TRUE, None, None, None, None)]

process_audio_not_question(heard, text) ==
  [heard EXCEPT !.resp = ProcessAudioResponse(TRUE, None, None, None, text)]

\* the try block of process_audio for the session, with the engines answering
\* stt and gen, and utcnow() reading t1 (the response) and t2 (the row)
process_audio_try(session_id, audio, stt, gen, contexts, history, t1, t2) ==
  LET start == RunStart(history)
  IN IF audio = <<>>
     THEN process_audio_except(start, Raise("ValueError", "zero-size array to reduction operation maximum"))
     ELSE
       LET audio_array == IF ArrayMax(audio) > 1 THEN Buffer(audio, 32768)
                          ELSE Buffer(audio, 1)
           text == transcribe(stt)
           heard == [invoked(start, "stt_calls") EXCEPT
                       !.stt_called = TRUE, !.stt_input = audio_array,
                       !.transcript = text, !.transcriptions = 1]
       IN IF ~Truthy(text) THEN process_audio_empty(heard)
          ELSE IF ~is_question(question_detector, text)
          THEN process_audio_not_question(heard, text)
          ELSE
            LET asked == [heard EXCEPT !.is_q = TRUE, !.questions = 1]
                context_data == get_context_db(session_id, contexts)
            IN IF context_data.raised THEN process_audio_except(asked, context_data)
               ELSE process_audio_answer(asked, session_id, text, context_data.val,
                                         gen, t1, t2)

\* POST /api/process_audio
process_audio(authorization, audio, stt, gen, d1, d2) ==
  /\ Stimuli < MaxStimuli
  /\ LET started == initialize_engines(gemini_client, transcription_engine, config)
         session_id == SessionId(get_optional_user(authorization))
         t1 == clock + d1
         t2 == t1 + d2
     IN \E run \in {IF started.raised THEN RunStart(interview_history)
                    ELSE process_audio_try(session_id, audio, stt, gen,
                                           interview_contexts, interview_history,
                                           t1, t2)} :
        /\ gemini_client' = started.gemini_client
        /\ transcription_engine' = started.transcription_engine
        /\ interview_history' = run.history
        /\ clock' = IF run.history # interview_history THEN t2 ELSE clock
        /\ metrics' = Count(metrics, run, <<"process_audio_error", "/api/process_audio">>)
        /\ last' = [op |-> "process_audio", authorization |-> authorization,
                    session_id |-> session_id, audio |-> audio,
                    entered |-> ~started.raised,
                    stt_called |-> run.stt_called, stt_input |-> run.stt_input,
                    transcript |-> run.transcript, is_q |-> run.is_q,
                    gen |-> IF run.is_q THEN gen ELSE GenUnused,
                    gen_called |-> run.gen_called, resp |-> run.resp,
                    pre_history |-> interview_history, post_history |-> run.history,
                    stt_raised |-> run.stt_called /\ stt.kind = "raise",
                    errors |-> run.errors,
                    stt_calls |-> run.stt_calls, gen_calls |-> run.gen_calls]
  /\ nreq' = nreq + 1
  /\ UNCHANGED <<config, interview_contexts, ws, db_calls, db_last, db_session, fn, loop>>

(* ---------------------- app.py: transcribe_audio ---------------------- *)
\* the base64 alphabet in index order
B64Digits ==
  SubSeq(UpperChars, 1, 26) \o SubSeq(LowerChars, 1, 26)
  \o <<"0", "1", "2", "3", "4", "5", "6", "7", "8", "9", "+", "/">>

B64Index(c) == (CHOOSE i \in 1..Len(B64Digits) : B64Digits[i] = c) - 1

RECURSIVE B64Bytes(_, _, _, _, _)
\* binascii.a2b_base64 reading the characters s with quad_pos digits of the
\* current group read, their unused bits in leftchar, pads "=" signs seen since
\* the last digit and `emitted` bytes made: a byte is made as soon as its bits
\* are read, a character outside the alphabet is skipped, the "=" that
\* completes a group of two or three digits ends the reading, and a text that
\* ends inside a group is an error
B64Bytes(s, quad_pos, leftchar, pads, emitted) ==
  IF s = <<>>
  THEN IF quad_pos = 0 THEN Ok(<<>>)
       ELSE IF quad_pos = 1
       THEN Raise("binascii.Error",
                  <<"Invalid base64-encoded string: number of data characters (",
                    (emitted \div 3) * 4 + 1,
                    ") cannot be 1 more than a multiple of 4">>)
       ELSE Raise("binascii.Error", "Incorrect padding")
  ELSE IF Head(s) = "="
  THEN IF quad_pos >= 2 /\ quad_pos + pads + 1 >= 4 THEN Ok(<<>>)
       ELSE B64Bytes(Tail(s), quad_pos, leftchar,
                     IF quad_pos >= 2 THEN pads + 1 ELSE pads, emitted)
  ELSE IF Head(s) \notin {B64Digits[i] : i \in 1..Len(B64Digits)}
  THEN B64Bytes(Tail(s), quad_pos, leftchar, pads, emitted)
  ELSE
    LET this_ch == B64Index(Head(s))
        Then(byte, rest) == IF rest.raised THEN rest ELSE Ok(<<byte>> \o rest.val)
    IN IF quad_pos = 0 THEN B64Bytes(Tail(s), 1, this_ch, 0, emitted)
       ELSE IF quad_pos = 1
       THEN Then(leftchar * 4 + this_ch \div 16,
                 B64Bytes(Tail(s), 2, this_ch % 16, 0, emitted + 1))
       ELSE IF quad_pos = 2
       THEN Then(leftchar * 16 + this_ch \div 4,
                 B64Bytes(Tail(s), 3, this_ch % 4, 0, emitted + 1))
       ELSE Then(leftchar * 64 + this_ch,
                 B64Bytes(Tail(s), 0, 0, 0, emitted + 1))

\* the characters of the texts above that s.encode('ascii') refuses
NonAscii ==
  LET ascii_whitespace ==
        {" ", "\t", "\n", "\r", "\f", "\\x0b", "\\x1c", "\\x1d", "\\x1e", "\\x1f"}
  IN (Whitespace \ ascii_whitespace)
     \cup {UpperChars[i] : i \in 27..Len(UpperChars)}
     \cup ({LowerChars[i] : i \in 27..Len(LowerChars)} \ {"k", "i"})
     \cup {"combining-dot"}

\* base64.b64decode(s) of a str: s.encode('ascii'), a ValueError for a
\* character outside ASCII, then binascii.a2b_base64
b64decode(s) ==
  IF \E i \in 1..Len(s) : s[i] \in NonAscii
  THEN Raise("ValueError", "string argument should contain only ASCII characters")
  ELSE B64Bytes(s, 0, 0, 0, 0)

\* np.frombuffer(buffer, dtype=np.float32): one element per four bytes, each
\* held as its four bytes
frombuffer(buffer) ==
  IF Len(buffer) % 4 # 0
  THEN Raise("ValueError", "buffer size must be a multiple of element size")
  ELSE Ok([i \in 1..(Len(buffer) \div 4) |-> SubSeq(buffer, 4 * i - 3, 4 * i)])

\* what one run of a single-stage handler did, before the stage has run
StageStart ==
  [resp |-> ServerError, stt_called |-> FALSE, gen_called |-> FALSE,
   transcriptions |-> 0, questions |-> 0, generations |-> 0, errors |-> 0,
   stt_calls |-> 0, gen_calls |-> 0,
   label |-> <<"transcription_error", "/api/transcribe">>]

TranscribeResponse(text, language, timestamp) ==
  [status |-> 200, text |-> text, language |-> language, timestamp |-> timestamp]

\* except Exception as e: of transcribe_audio
transcribe_audio_except(run, e) ==
  [run EXCEPT !.resp = HTTPException(500, "Transcription error: ", e.msg),
              !.errors = 1, !.label = <<"transcription_error", "/api/transcribe">>]

\* the try block of transcribe_audio without `except HTTPException: raise`: the
\* 400 of an empty transcription falls into the generic except clause
transcribe_audio_try_rewrapped(transcribe_request, stt, t) ==
  LET audio_bytes == b64decode(transcribe_request.audio)
  IN IF audio_bytes.raised THEN transcribe_audio_except(StageStart, audio_bytes)
     ELSE
       LET audio_array == frombuffer(audio_bytes.val)
       IN IF audio_array.raised THEN transcribe_audio_except(StageStart, audio_array)
          ELSE
            LET text == transcribe(stt)
                heard == [invoked(StageStart, "stt_calls") EXCEPT !.stt_called = TRUE]
            IN IF ~Truthy(text)
               THEN transcribe_audio_except(
                      heard, Raise("HTTPException", "400: Failed to transcribe audio"))
               ELSE [heard EXCEPT
                       !.transcriptions = 1,
                       !.resp = TranscribeResponse(text, transcribe_request.language,
                                                   isoformat(t))]

\* the try block of transcribe_audio, the engine answering stt and utcnow()
\* reading t
transcribe_audio_try(transcribe_request, stt, t) ==
  LET audio_bytes == b64decode(transcribe_request.audio)
  IN IF audio_bytes.raised THEN transcribe_audio_except(StageStart, audio_bytes)
     ELSE
       LET audio_array == frombuffer(audio_bytes.val)
       IN IF audio_array.raised THEN transcribe_audio_except(StageStart, audio_array)
          ELSE
            LET text == transcribe(stt)
                heard == [invoked(StageStart, "stt_calls") EXCEPT !.stt_called = TRUE]
            IN IF ~Truthy(text)
               THEN [heard EXCEPT
                       !.errors = 1,
                       !.label = <<"empty_transcription", "/api/transcribe">>,
                       !.resp = HTTPException(400, "Failed to transcribe audio", "")]
               ELSE [heard EXCEPT
                       !.transcriptions = 1,
                       !.resp = TranscribeResponse(text, transcribe_request.language,
                                                   isoformat(t))]

\* the bodies of POST /api/transcribe the clients send (TranscribeRequest)
TranscribeRequests ==
  {[audio |-> a, language |-> "pl"] :
     a \in {<<"A", "A", "C", "A", "P", "w", "=", "=">>, <<"A", "A", "A", "A">>,
            <<"A">>}}

\* whether the request's audio reaches the transcription engine
Decodes(transcribe_request) ==
  /\ ~b64decode(transcribe_request.audio).raised
  /\ ~frombuffer(b64decode(transcribe_request.audio).val).raised

\* POST /api/transcribe
transcribe_audio(authorization, transcribe_request, stt, d) ==
  /\ Stimuli < MaxStimuli
  /\ LET started == initialize_engines(gemini_client, transcription_engine, config)
         session_id == SessionId(get_optional_user(authorization))
     IN \E run \in {IF started.raised THEN StageStart
                    ELSE transcribe_audio_try(transcribe_request, stt, clock + d)} :
        /\ gemini_client' = started.gemini_client
        /\ transcription_engine' = started.transcription_engine
        /\ metrics' = Count(metrics, run, run.label)
        /\ last' = [op |-> "transcribe", authorization |-> authorization,
                    session_id |-> session_id,
                    request |-> transcribe_request, entered |-> ~started.raised,
                    stt |-> stt,
                    stt_called |-> run.stt_called,
                    stt_raised |-> run.stt_called /\ stt.kind = "raise",
                    gen_called |-> FALSE, resp |-> run.resp, errors |-> run.errors,
                    label |-> run.label,
                    stt_calls |-> run.stt_calls, gen_calls |-> run.gen_calls,
                    pre_contexts |-> interview_contexts,
                    pre_history |-> interview_history]
  /\ nreq' = nreq + 1
  /\ UNCHANGED <<config, store_vars, ws, db_calls, db_last, db_session, fn, loop>>

(* ----------------------- app.py: generate_answer ---------------------- *)
GenerateResponse(answer, timestamp) ==
  [status |-> 200, answer |-> answer, timestamp |-> timestamp]

\* except Exception as e: of generate_answer
generate_answer_except(run, e) ==
  [run EXCEPT !.resp = HTTPException(500, "Generation error: ", e.msg),
              !.errors = 1, !.label = <<"generation_error", "/api/generate">>]

\* the try block of generate_answer, the model answering gen and utcnow()
\* reading t
generate_answer_try(generate_request, gen, t) ==
  LET get(key) == IF key \in DOMAIN generate_request.context
                  THEN generate_request.context[key] ELSE <<>>
      system_prompt ==
        build_system_prompt(context_manager,
                            [cv |-> get("cv"), company |-> get("company"),
                             position |-> get("position"),
                             custom_system_prompt |-> get("custom_system_prompt")])
  IN IF system_prompt.raised THEN generate_answer_except(StageStart, system_prompt)
     ELSE
       LET answer == generate_response_async(gen)
           called == [invoked(StageStart, "gen_calls") EXCEPT !.gen_called = TRUE]
       IN IF answer.raised THEN generate_answer_except(called, answer)
          ELSE IF ~Truthy(answer.val)
          THEN [called EXCEPT
                  !.errors = 1, !.label = <<"empty_generation", "/api/generate">>,
                  !.resp = HTTPException(500, "Failed to generate answer", "")]
          ELSE [called EXCEPT
                  !.generations = 1,
                  !.resp = GenerateResponse(answer.val, isoformat(t))]

\* the bodies of POST /api/generate the clients send (GenerateRequest)
GenerateRequests ==
  {[question |-> T_QUESTION, context |-> [cv |-> <<"c", "v">>]],
   [question |-> T_QUESTION, context |-> [company |-> <<"A">>]]}

\* POST /api/generate
generate_answer(authorization, generate_request, gen, d) ==
  /\ Stimuli < MaxStimuli
  /\ LET started == initialize_engines(gemini_client, transcription_engine, config)
         session_id == SessionId(get_optional_user(authorization))
     IN \E run \in {IF started.raised THEN StageStart
                    ELSE generate_answer_try(generate_request, gen, clock + d)} :
        /\ gemini_client' = started.gemini_client
        /\ transcription_engine' = started.transcription_engine
        /\ metrics' = Count(metrics, run, run.label)
        /\ last' = [op |-> "generate", authorization |-> authorization,
                    session_id |-> session_id,
                    request |-> generate_request, entered |-> ~started.raised,
                    gen |-> gen,
                    stt_called |-> FALSE, gen_called |-> run.gen_called,
                    resp |-> run.resp, errors |-> run.errors, label |-> run.label,
                    stt_calls |-> run.stt_calls, gen_calls |-> run.gen_calls,
                    pre_contexts |-> interview_contexts,
                    pre_history |-> interview_history]
  /\ nreq' = nreq + 1
  /\ UNCHANGED <<config, store_vars, ws, db_calls, db_last, db_session, fn, loop>>

(* ------------------ app.py: context and history (REST) ---------------- *)
\* the bodies of POST /api/context the clients send (ContextRequest)
ContextRequests ==
  {[cv |-> <<"c", "v">>, company |-> <<"A">>, position |-> <<"P">>,
    custom_system_prompt |-> <<>>],
   [cv |-> <<>>, company |-> <<"B">>, position |-> <<"Q">>,
    custom_system_prompt |-> <<"X">>]}

ContextResponse(cv, company, position, custom_system_prompt) ==
  [status |-> 200, cv |-> cv, company |-> company, position |-> position,
   custom_system_prompt |-> custom_system_prompt]

\* the response of GET /api/context for the session
get_context_response(session_id, contexts) ==
  LET context_data == get_context_db(session_id, contexts)
  IN IF context_data.raised THEN ServerError
     ELSE LET cv == GetAttr(context_data.val, "cv")
              company == GetAttr(context_data.val, "company")
              position == GetAttr(context_data.val, "position")
              custom == GetAttr(context_data.val, "custom_system_prompt")
          IN IF cv.raised \/ company.raised \/ position.raised \/ custom.raised
             THEN ServerError
             ELSE ContextResponse(cv.val, company.val, position.val, custom.val)

\* GET /api/context
get_context(authorization) ==
  /\ Stimuli < MaxStimuli
  /\ LET session_id == SessionId(get_optional_user(authorization))
     IN last' = [op |-> "get_context", authorization |-> authorization,
                    session_id |-> session_id,
                 resp |-> get_context_response(session_id, interview_contexts),
                 pre_contexts |-> interview_contexts,
                 pre_history |-> interview_history]
  /\ nreq' = nreq + 1
  /\ UNCHANGED <<config, engine_vars, store_vars, metrics, ws, db_calls, db_last, db_session, fn, loop>>

\* the table after POST /api/context stored the request, or what was raised
update_context_store(session_id, context_request, contexts, now) ==
  LET context_data ==
        Context([cv |-> context_request.cv, company |-> context_request.company,
                 position |-> context_request.position,
                 custom_system_prompt |-> context_request.custom_system_prompt])
  IN IF context_data.raised THEN context_data
     ELSE update_context_db(session_id, context_data.val, contexts, now)

\* POST /api/context
update_context(authorization, context_request, d) ==
  /\ Stimuli < MaxStimuli
  /\ LET session_id == SessionId(get_optional_user(authorization))
         stored == update_context_store(session_id, context_request,
                                        interview_contexts, clock + d)
     IN /\ interview_contexts' = IF stored.raised THEN interview_contexts ELSE stored.val
        /\ clock' = IF stored.raised THEN clock ELSE clock + d
        /\ last' = [op |-> "update_context", authorization |-> authorization,
                    session_id |-> session_id,
                    request |-> context_request,
                    resp |-> IF stored.raised THEN ServerError
                             ELSE [status |-> 200, success |-> TRUE,
                                   message |-> "Context updated"],
                    pre_contexts |-> interview_contexts,
                    post_contexts |-> IF stored.raised THEN interview_contexts
                                      ELSE stored.val,
                    pre_history |-> interview_history]
  /\ nreq' = nreq + 1
  /\ UNCHANGED <<config, engine_vars, interview_history, metrics, ws, db_calls, db_last, db_session, fn, loop>>

\* GET /api/history
get_history(authorization) ==
  /\ Stimuli < MaxStimuli
  /\ LET session_id == SessionId(get_optional_user(authorization))
     IN \E order \in HistoryOrders(HistoryIds(session_id, interview_history),
                                   interview_history) :
          last' = [op |-> "get_history", authorization |-> authorization,
                    session_id |-> session_id,
                   resp |-> [status |-> 200, success |-> TRUE,
                             history |-> get_history_db(session_id, interview_history,
                                                        DEFAULT_HISTORY_LIMIT, order)],
                   pre_contexts |-> interview_contexts,
                   pre_history |-> interview_history]
  /\ nreq' = nreq + 1
  /\ UNCHANGED <<config, engine_vars, store_vars, metrics, ws, db_calls, db_last, db_session, fn, loop>>

(* ----------------- app.py: health_check, start_session ---------------- *)
\* GET /api/health, gemini_client.check_connection() answering gemini_ok: the
\* ValueError of initialize_engines is caught, counted and answered
\* "unhealthy"; the outcome of check_db_connection() is not in the response
health_check(gemini_ok, d) ==
  /\ Stimuli < MaxStimuli
  /\ LET started == initialize_engines(gemini_client, transcription_engine, config)
         status == IF started.raised THEN "unhealthy"
                   ELSE IF gemini_ok THEN "healthy" ELSE "degraded"
     IN /\ gemini_client' = started.gemini_client
        /\ transcription_engine' = started.transcription_engine
        /\ metrics' = [metrics EXCEPT
                         !.error_count[<<"health_check_error", "/api/health">>] =
                           IF started.raised THEN @ + 1 ELSE @]
        /\ last' = [op |-> "health_check", entered |-> ~started.raised,
                    check_connection_called |-> ~started.raised,
                    resp |-> [status |-> 200, health |-> status, version |-> "2.0.0",
                              gemini_model |-> "gemini-2.5-pro-exp-03-25",
                              whisper_model |-> "base",
                              timestamp |-> isoformat(clock + d)]]
  /\ nreq' = nreq + 1
  /\ UNCHANGED <<config, store_vars, ws, db_calls, db_last, db_session, fn, loop>>

\* POST /api/start: an exception of initialize_engines is caught by no handler
start_session(authorization) ==
  /\ Stimuli < MaxStimuli
  /\ LET started == initialize_engines(gemini_client, transcription_engine, config)
         session_id == SessionId(get_optional_user(authorization))
     IN /\ gemini_client' = started.gemini_client
        /\ transcription_engine' = started.transcription_engine
        /\ last' = [op |-> "start_session", authorization |-> authorization,
                    session_id |-> session_id, entered |-> ~started.raised,
                    resp |-> IF started.raised THEN ServerError
                             ELSE [status |-> 200, success |-> TRUE,
                                   message |-> "Session started"]]
  /\ nreq' = nreq + 1
  /\ UNCHANGED <<config, store_vars, metrics, ws, db_calls, db_last, db_session, fn, loop>>

(* -------------------- app.py: websocket_audio_stream ------------------ *)
\* the WebSocket connections of a run
Conns == {"c1"}

\* ?token=... of the connection URL; <<>> is no token
WsTokens == {<<>>, TokenOf("u1"), TOKEN_INVALID}

\* an inbound text frame: whether json.loads accepts it, and the object it
\* yields (a record of its keys; a JSON value that is no object has none)
Frame(obj) == [valid |-> TRUE, obj |-> obj]

BadFrame == [valid |-> FALSE, obj |-> <<>>]

WsContextData ==
  {[cv |-> <<"c", "v">>, company |-> <<"A">>, position |-> <<"P">>,
    custom_system_prompt |-> <<"X">>],
   [company |-> <<"B">>]}

WsFrames ==
  {BadFrame, Frame(<<>>), Frame([type |-> "ping"]), Frame([type |-> "auth"]),
   Frame([type |-> "audio"]), Frame([type |-> "context"])}
  \cup {Frame([type |-> "audio", data |-> a]) : a \in {<<0, 1>>, <<0, 32767>>}}
  \cup {Frame([type |-> "context", data |-> d]) : d \in WsContextData}

\* the chunks the model may stream, and after how many of them it may fail
StreamChunks == {<<>>, << <<"Y", "e", "s">>, <<" ">>, <<>>, <<"!", "\n">> >>}

\* the stream fails at once, after its second chunk, or not at all
StreamFailures == {0, 2, 9}

json_loads(frame) ==
  IF frame.valid THEN Ok(frame.obj) ELSE Raise("JSONDecodeError", "Expecting value")

\* obj[key]
GetItem(obj, key) == IF key \in DOMAIN obj THEN Ok(obj[key]) ELSE Raise("KeyError", key)

\* dict.get(key, "")
DictGet(obj, key) == IF key \in DOMAIN obj THEN obj[key] ELSE <<>>

\* an outbound event; `cause` is the number of the inbound frame it answers
\* (0: the handshake) and is not on the wire
Event(type, payload, cause) == [type |-> type, payload |-> payload, cause |-> cause]

AUTH_REQUIRED_MESSAGE ==
  <<"Authentication required. Provide token as query parameter: ?token=YOUR_JWT_TOKEN">>

WsNew ==
  [state |-> "NEW", pc |-> "connect", token |-> <<>>, session_id |-> "",
   outbox |-> <<>>, close_code |-> 0, inbox |-> <<>>, text |-> None,
   context_data_bound |-> FALSE,
   stream |-> [cause |-> 0, chunks |-> <<>>, fails_after |-> 0, gen_calls |-> 0]]

\* the client opens /ws/audio; await websocket.accept()
ws_accept(c, token) ==
  /\ ws[c].state = "NEW"
  /\ ws' = [ws EXCEPT ![c] = [@ EXCEPT !.state = "CONNECTING", !.pc = "accepted",
                                       !.token = token]]
  /\ UNCHANGED <<config, engine_vars, store_vars, metrics, nreq, last, db_calls, db_last, db_session, fn, loop>>

\* initialize_engines(), get_websocket_user(token) and the auth gate, up to
\* the rejection's send_json or the entry of the message loop
ws_authenticate(c) ==
  /\ ws[c].pc = "accepted"
  /\ LET started == initialize_engines(gemini_client, transcription_engine, config)
         user == get_websocket_user(ws[c].token)
     IN /\ gemini_client' = started.gemini_client
        /\ transcription_engine' = started.transcription_engine
        /\ ws' = [ws EXCEPT ![c] =
                   IF started.raised
                   THEN [@ EXCEPT !.state = "CLOSED", !.pc = "done", !.close_code = 1011]
                   ELSE IF config.require_auth /\ ~user.some
                   THEN [@ EXCEPT !.pc = "rejecting",
                                  !.outbox = Append(@, Event("error",
                                                             AUTH_REQUIRED_MESSAGE, 0))]
                   ELSE [@ EXCEPT !.state = "OPEN", !.pc = "receive",
                                  !.session_id = SessionId(user)]]
  /\ UNCHANGED <<config, store_vars, metrics, nreq, last, db_calls, db_last, db_session, fn, loop>>

\* await websocket.close(code=1008); return
ws_reject(c) ==
  /\ ws[c].pc = "rejecting"
  /\ ws' = [ws EXCEPT ![c] = [@ EXCEPT !.state = "CLOSED", !.pc = "done",
                                       !.close_code = 1008]]
  /\ UNCHANGED <<config, engine_vars, store_vars, metrics, nreq, last, db_calls, db_last, db_session, fn, loop>>

\* receive_text() raises WebSocketDisconnect: the client has gone
ws_disconnect(c) ==
  /\ ws[c].pc = "receive"
  /\ ws' = [ws EXCEPT ![c] = [@ EXCEPT !.state = "CLOSED", !.pc = "done"]]
  /\ UNCHANGED <<config, engine_vars, store_vars, metrics, nreq, last, db_calls, db_last, db_session, fn, loop>>

\* an except clause that closes the connection and goes on receiving
ws_except_receiving(conn) ==
  [conn EXCEPT !.state = "CLOSED", !.pc = "receive", !.close_code = 1000]

\* except Exception: the error metric, then await websocket.close()
ws_except(conn) == [conn EXCEPT !.state = "CLOSED", !.pc = "done", !.close_code = 1000]

WsErrorRun == [transcriptions |-> 0, generations |-> 0, questions |-> 0, errors |-> 1]

WsRun(transcriptions, questions, generations) ==
  [transcriptions |-> transcriptions, generations |-> generations,
   questions |-> questions, errors |-> 0]

\* the log line of the context branch reads context_data.get(...): the
\* handler's local context_data is unbound until a question's context lookup
\* has assigned it, and is a Context (which has no .get) from then on
local_context_data_get(conn) ==
  IF conn.context_data_bound THEN Raise("AttributeError", "get")
  ELSE Raise("UnboundLocalError", "context_data")

\* elif message["type"] == "ping": the reply to the k-th frame
ws_pong_forgotten(conn, k) == conn

ws_pong(conn, k) == [conn EXCEPT !.outbox = Append(@, Event("pong", <<>>, k))]

\* one turn of the message loop from receive_text() to the next await that
\* sends, or to the close of the except clause: the connection, the counters
\* and the context table after it
ws_dispatch(conn, frame, stt, contexts, now) ==
  LET k == Len(conn.inbox) + 1
      Logged(type, transcript) ==
        [conn EXCEPT !.inbox = Append(@, [type |-> type, transcript |-> transcript,
                                          frame |-> frame, stt_raised |-> FALSE,
                                          stt_calls |-> 0, stt_input |-> NoBuffer])]
      Heard(transcript, audio_data) ==
        [Logged("audio", transcript) EXCEPT
           !.inbox[k] = [invoked(@, "stt_calls") EXCEPT
                           !.stt_raised = (stt.kind = "raise"),
                           !.stt_input = audio_data]]
      Failed(type) ==
        [conn |-> ws_except(Logged(type, None)), run |-> WsErrorRun, contexts |-> contexts]
      message == json_loads(frame)
  IN IF message.raised THEN Failed("malformed")
     ELSE
     LET type == GetItem(message.val, "type")
         data == GetItem(message.val, "data")
     IN IF type.raised THEN Failed("malformed")
        ELSE IF type.val = "audio"
        THEN IF data.raised THEN Failed("audio")
             ELSE LET audio_data == Buffer(data.val, 1)
                      text == transcribe(stt)
                  IN [conn |-> IF Truthy(text)
                               THEN [Heard(text, audio_data) EXCEPT
                                       !.outbox = Append(@, Event("transcription", text, k)),
                                       !.pc = "transcribed", !.text = text]
                               ELSE Heard(text, audio_data),
                      run |-> WsRun(1, 0, 0), contexts |-> contexts]
        ELSE IF type.val = "ping"
        THEN [conn |-> ws_pong(Logged("ping", None), k),
              run |-> WsRun(0, 0, 0), contexts |-> contexts]
        ELSE IF type.val = "context"
        THEN IF data.raised THEN Failed("context")
             ELSE
             LET context_data ==
                   Context([cv |-> DictGet(data.val, "cv"),
                            company |-> DictGet(data.val, "company"),
                            position |-> DictGet(data.val, "position"),
                            custom_system_prompt |->
                              DictGet(data.val, "custom_system_prompt")])
                 stored == IF context_data.raised THEN context_data
                           ELSE update_context_db(conn.session_id, context_data.val,
                                                  contexts, now)
                 logged == local_context_data_get(conn)
             IN IF stored.raised THEN Failed("context")
                ELSE IF logged.raised
                THEN [conn |-> ws_except(Logged("context", None)), run |-> WsErrorRun,
                      contexts |-> stored.val]
                ELSE [conn |-> [Logged("context", None) EXCEPT
                                  !.outbox = Append(@, Event("status",
                                                             <<"Context updated">>, k))],
                      run |-> WsRun(0, 0, 0), contexts |-> stored.val]
        ELSE [conn |-> Logged(type.val, None), run |-> WsRun(0, 0, 0),
              contexts |-> contexts]

\* data = await websocket.receive_text() and the dispatch of the frame
ws_receive(c, frame, stt, d) ==
  /\ ws[c].pc = "receive"
  /\ Stimuli < MaxStimuli
  /\ \E done \in {ws_dispatch(ws[c], frame, stt, interview_contexts, clock + d)} :
        /\ ws' = [ws EXCEPT ![c] = done.conn]
        /\ interview_contexts' = done.contexts
        /\ clock' = IF done.contexts # interview_contexts THEN clock + d ELSE clock
        /\ metrics' = Count(metrics, done.run, <<"websocket_error", "/ws/audio">>)
  /\ UNCHANGED <<config, engine_vars, interview_history, nreq, last, db_calls, db_last, db_session, fn, loop>>

\* after the transcription event is sent: the question check and the
\* question_detected event
ws_classify_unchecked(c) ==
  /\ ws[c].pc = "transcribed"
  /\ ws' = [ws EXCEPT ![c] =
              [@ EXCEPT !.pc = "asked",
                        !.outbox = Append(@, Event("question_detected", ws[c].text,
                                                    Len(ws[c].inbox)))]]
  /\ metrics' = Count(metrics, WsRun(0, 1, 0), <<"websocket_error", "/ws/audio">>)
  /\ UNCHANGED <<config, engine_vars, store_vars, nreq, last, db_calls, db_last, db_session, fn, loop>>

ws_classify(c) ==
  /\ ws[c].pc = "transcribed"
  /\ LET asked == is_question(question_detector, ws[c].text)
         k == Len(ws[c].inbox)
     IN /\ ws' = [ws EXCEPT ![c] =
                   IF asked
                   THEN [@ EXCEPT !.pc = "asked",
                                  !.outbox = Append(@, Event("question_detected",
                                                             ws[c].text, k))]
                   ELSE [@ EXCEPT !.pc = "receive"]]
        /\ metrics' = Count(metrics, WsRun(0, IF asked THEN 1 ELSE 0, 0),
                            <<"websocket_error", "/ws/audio">>)
  /\ UNCHANGED <<config, engine_vars, store_vars, nreq, last, db_calls, db_last, db_session, fn, loop>>

RECURSIVE Join(_)
\* "".join(chunks)
Join(chunks) == IF chunks = <<>> THEN <<>> ELSE Head(chunks) \o Join(Tail(chunks))

\* after the question_detected event is sent: the context lookup, the prompt
\* and the streamed answer (chunks streamed by the model, failing after
\* fails_after of them)
ws_answer_run(conn, contexts, chunks, fails_after) ==
  LET k == Len(conn.inbox)
      Failed(bound) ==
        [conn |-> ws_except([conn EXCEPT !.context_data_bound = bound]),
         run |-> WsErrorRun, stream |-> [gen_calls |-> 0]]
      context_data == get_context_db(conn.session_id, contexts)
  IN IF context_data.raised THEN Failed(FALSE)
     ELSE
     LET cv == GetAttr(context_data.val, "cv")
         company == GetAttr(context_data.val, "company")
         position == GetAttr(context_data.val, "position")
         custom == GetAttr(context_data.val, "custom_system_prompt")
     IN IF cv.raised \/ company.raised \/ position.raised \/ custom.raised
        THEN Failed(TRUE)
        ELSE
        LET system_prompt ==
              build_system_prompt(context_manager,
                                  [cv |-> cv.val, company |-> company.val,
                                   position |-> position.val,
                                   custom_system_prompt |-> custom.val])
            answer_chunks == SelectSeq(stream_response(chunks, fails_after),
                                       LAMBDA chunk : Strip(chunk) # <<>>)
            full_answer == Strip(Join(answer_chunks))
            sent == conn.outbox
                    \o [i \in 1..Len(answer_chunks) |->
                          Event("answer_chunk", answer_chunks[i], k)]
                    \o (IF full_answer # <<>>
                        THEN <<Event("answer_final", full_answer, k)>> ELSE <<>>)
        IN IF system_prompt.raised THEN Failed(TRUE)
           ELSE [conn |-> [conn EXCEPT !.outbox = sent, !.pc = "receive",
                                       !.context_data_bound = TRUE],
                 run |-> WsRun(0, 0, 1),
                 stream |-> invoked([gen_calls |-> 0], "gen_calls")]

ws_answer(c, chunks, fails_after) ==
  /\ ws[c].pc = "asked"
  /\ \E done \in {ws_answer_run(ws[c], interview_contexts, chunks, fails_after)} :
        /\ ws' = [ws EXCEPT ![c] =
                    [done.conn EXCEPT !.stream = [cause |-> Len(ws[c].inbox),
                                                  chunks |-> chunks,
                                                  fails_after |-> fails_after,
                                                  gen_calls |->
                                                    done.stream.gen_calls]]]
        /\ metrics' = Count(metrics, done.run, <<"websocket_error", "/ws/audio">>)
  /\ UNCHANGED <<config, engine_vars, store_vars, nreq, last, db_calls, db_last, db_session, fn, loop>>

(* ------------- db_operations.py called directly (DbSpec) -------------- *)
\* the objects a caller can pass as `context`: models.Context(...), and rows
\* of db_models.InterviewContext, which carry the attributes update_context reads
DbContexts ==
  {[cv |-> <<"c", "v">>, company_name |-> <<"A">>, position |-> <<"P">>],
   [cv |-> <<"c", "v">>, company |-> <<"A">>, position |-> <<"P">>],
   [cv |-> <<>>, company |-> <<"B">>, position |-> <<"P">>]}

DbAnswers == {<<"Y", "e", "s">>, <<"N", "o">>}

\* The caller passes one Session to its calls until it closes it; a commit
\* flushes every write the Session holds, whichever call made it.

\* add_history_entry(user_id, question, answer, db) called at clock + d
db_add_history_entry_replacing(user_id, question, answer, d) ==
  /\ db_calls < MaxDbCalls
  /\ interview_history' = add_history_entry(user_id, question, answer, <<>>, clock + d)
  /\ interview_contexts' = commit(interview_contexts, db_session, clock + d)
  /\ db_session' = NoWrites
  /\ clock' = clock + d
  /\ db_last' = [op |-> "add_history_entry", user_id |-> user_id, raised |-> FALSE,
                 pre_contexts |-> interview_contexts,
                 pre_history |-> interview_history,
                 pre_session |-> db_session]
  /\ db_calls' = db_calls + 1
  /\ UNCHANGED <<config, engine_vars, metrics, nreq, last, ws, fn, loop>>

db_add_history_entry(user_id, question, answer, d) ==
  /\ db_calls < MaxDbCalls
  /\ interview_history' = add_history_entry(user_id, question, answer,
                                            interview_history, clock + d)
  /\ interview_contexts' = commit(interview_contexts, db_session, clock + d)
  /\ db_session' = NoWrites
  /\ clock' = clock + d
  /\ db_last' = [op |-> "add_history_entry", user_id |-> user_id, raised |-> FALSE,
                 pre_contexts |-> interview_contexts,
                 pre_history |-> interview_history,
                 pre_session |-> db_session]
  /\ db_calls' = db_calls + 1
  /\ UNCHANGED <<config, engine_vars, metrics, nreq, last, ws, fn, loop>>

\* update_context(user_id, context, db) called at clock + d: the query finds
\* the row as the Session holds it
db_update_context(user_id, context, d) ==
  /\ db_calls < MaxDbCalls
  /\ LET held == SessionRows(interview_contexts, db_session)
         stored == update_context_db(user_id, context, held, clock + d)
         others == [j \in DOMAIN db_session \ {FirstContextRow(user_id, held)} |->
                      db_session[j]]
     IN /\ interview_contexts' =
             IF stored.raised THEN interview_contexts
             ELSE [k \in 1..Len(stored.val) |->
                     IF k \in Flushed(interview_contexts, others)
                     THEN commit(interview_contexts, others, clock + d)[k]
                     ELSE IF k \in DOMAIN others THEN interview_contexts[k]
                     ELSE stored.val[k]]
        /\ db_session' =
             IF stored.raised
             THEN update_context_writes(user_id, context, held, db_session)
             ELSE NoWrites
        /\ clock' = IF stored.raised THEN clock ELSE clock + d
        /\ db_last' = [op |-> "update_context", user_id |-> user_id,
                       context |-> context, raised |-> stored.raised,
                       pre_contexts |-> interview_contexts,
                       pre_history |-> interview_history,
                       pre_session |-> db_session]
  /\ db_calls' = db_calls + 1
  /\ UNCHANGED <<config, engine_vars, interview_history, metrics, nreq, last, ws, fn, loop>>

db_get_context(user_id) ==
  /\ db_calls < MaxDbCalls
  /\ LET got == get_context_db(user_id, SessionRows(interview_contexts, db_session))
     IN db_last' = [op |-> "get_context", user_id |-> user_id, raised |-> got.raised,
                    result |-> IF got.raised THEN EmptyContext ELSE got.val,
                    pre_contexts |-> interview_contexts,
                    pre_history |-> interview_history,
                    pre_session |-> db_session]
  /\ db_calls' = db_calls + 1
  /\ UNCHANGED <<config, engine_vars, store_vars, metrics, nreq, last, ws, db_session, fn, loop>>

db_get_history(user_id) ==
  /\ db_calls < MaxDbCalls
  /\ \E order \in HistoryOrders(HistoryIds(user_id, interview_history),
                                interview_history) :
       db_last' = [op |-> "get_history", user_id |-> user_id, raised |-> FALSE,
                   result |-> get_history_db(user_id, interview_history,
                                             DEFAULT_HISTORY_LIMIT, order),
                   pre_contexts |-> interview_contexts,
                   pre_history |-> interview_history,
                   pre_session |-> db_session]
  /\ db_calls' = db_calls + 1
  /\ UNCHANGED <<config, engine_vars, store_vars, metrics, nreq, last, ws, db_session, fn, loop>>

\* clear_history(db, user_id) called at clock + d: the rows of the key are
\* deleted and their number returned; the clock is read by the flush alone
db_clear_history(user_id, d) ==
  /\ db_calls < MaxDbCalls
  /\ interview_history' = clear_history(user_id, interview_history)
  /\ interview_contexts' = commit(interview_contexts, db_session, clock + d)
  /\ db_session' = NoWrites
  /\ clock' = IF Flushed(interview_contexts, db_session) # {} THEN clock + d ELSE clock
  /\ db_last' = [op |-> "clear_history", user_id |-> user_id, raised |-> FALSE,
                 result |-> Cardinality(HistoryIds(user_id, interview_history)),
                 pre_contexts |-> interview_contexts,
                 pre_history |-> interview_history,
                 pre_session |-> db_session]
  /\ db_calls' = db_calls + 1
  /\ UNCHANGED <<config, engine_vars, metrics, nreq, last, ws, fn, loop>>

\* db.close(): the caller ends its Session, whose unflushed writes are lost;
\* its next call is on a new Session
db_close ==
  /\ db_session # NoWrites
  /\ db_session' = NoWrites
  /\ db_last' = [op |-> "close", user_id |-> "none", raised |-> FALSE,
                 pre_contexts |-> interview_contexts,
                 pre_history |-> interview_history,
                 pre_session |-> db_session]
  /\ UNCHANGED <<config, engine_vars, store_vars, metrics, nreq, last, ws, db_calls, fn, loop>>

(* ------------------ functions called directly (PureSpec) ------------- *)
\* every variable but fn
app_vars == <<config, gemini_client, transcription_engine, interview_contexts,
              interview_history, clock, metrics, nreq, last, ws, db_calls, db_last,
              db_session>>

\* what model.generate_content may do: raise with a message, or answer
GenCalls ==
  {EngineRaise, EngineRaiseWith(UPSTREAM_TEXT), EngineRaiseWith(<<"5", "0", "3">>),
   EngineText(<<>>), EngineText(<<" ">>), EngineText(<<"Y", "e", "s", "\n">>),
   EngineText(<<"\\xa0", "\r">>), EngineText(<<"\\u2003", "N", "o", "\\x0b">>),
   EngineText(<<"E", "r", "r", "o", "r">>)}


\* the arguments the detectors are constructed with; an argument that is not
\* `supplied` is left to its default of None
Detectors ==
  {[markers |-> None, min_length |-> 0, supplied |-> {}],
   [markers |-> << <<"W", "h", "y">> >>, min_length |-> 3,
    supplied |-> {"markers", "min_length"}],
   [markers |-> <<>>, min_length |-> 3, supplied |-> {"markers", "min_length"}],
   [markers |-> << <<"w", "h", "y">> >>, min_length |-> 0,
    supplied |-> {"markers", "min_length"}]}

\* the texts the detectors are asked about
DetectorTexts ==
  {None, <<>>, <<"w", "h", "y">>, <<"W", "h", "y">>, <<"W", "H">>,
   <<"h", "o", "w", " ", "s", "o", "?">>, T_QUESTION, T_STATEMENT,
   <<"S", "a", "y", " ", "W", "H", "E", "N">>,
   <<"I", " ", "k", "n", "o", "w", " ", "i", "t">>,
   <<"W", "h", "y", " ", "n", "o", "t", " ", "?">>,
   <<"K", "T", "O-acute", "R", "Y", " ", "r", "o", "k">>,
   <<"Kelvin", "T", "O", " ", "T", "A", "M">>, <<"I-dot", "L", "E", " ", "T", "O">>,
   <<"\\xa0", "W", "H", "Y", "\r">>}

\* detector.is_question(text)
call_is_question(given, text) ==
  /\ LET detector == QuestionDetector(given.markers, given.min_length)
     IN fn' = [op |-> "is_question", given |-> given, detector |-> detector,
               text |-> text, result |-> is_question(detector, text)]
  /\ UNCHANGED <<app_vars, loop>>

\* manager.build_system_prompt(**kwargs), where manager is the one the last
\* call was made on (`same`, its self.context being `context`) or a new
\* ContextManager(context); `earlier` is the call of build_system_prompt made
\* before on that manager
call_build_system_prompt(context, kwargs, same) ==
  /\ same => /\ fn.op \in {"build_system_prompt", "update_context"}
              /\ context = fn.context
  /\ fn' = [op |-> "build_system_prompt", context |-> context, kwargs |-> kwargs,
            result |-> build_system_prompt([context |-> context], kwargs),
            earlier |-> IF ~same THEN [op |-> "none"]
                        ELSE IF fn.op = "build_system_prompt"
                        THEN [op |-> fn.op, context |-> fn.context,
                              kwargs |-> fn.kwargs, result |-> fn.result]
                        ELSE fn.earlier]
  /\ UNCHANGED <<app_vars, loop>>

\* GeminiClient(api_key=api_key, model=model)
call_GeminiClient(api_key, model) ==
  /\ fn' = [op |-> "GeminiClient", api_key |-> api_key, model |-> model,
            result |-> GeminiClient(api_key, model)]
  /\ UNCHANGED <<app_vars, loop>>

\* initialize_engines() in a process configured with cfg: the first call of
\* the process, or (`same`) the call after the last one; `made` counts the
\* constructions of each engine since the process started
call_initialize_engines(cfg, same) ==
  /\ same => /\ fn.op = "initialize_engines"
              /\ cfg = fn.cfg
              /\ fn.calls < 3
  /\ LET was == IF same THEN fn
                ELSE [gemini_client |-> FALSE, transcription_engine |-> FALSE,
                      calls |-> 0,
                      made |-> [gemini_client |-> 0, transcription_engine |-> 0]]
         started == initialize_engines(was.gemini_client, was.transcription_engine,
                                       cfg)
     IN fn' = [op |-> "initialize_engines", cfg |-> cfg,
               calls |-> was.calls + 1, raised |-> started.raised,
               gemini_client |-> started.gemini_client,
               transcription_engine |-> started.transcription_engine,
               made |-> [e \in {"gemini_client", "transcription_engine"} |->
                           was.made[e]
                           + (IF e \in started.constructed THEN 1 ELSE 0)]]
  /\ UNCHANGED <<app_vars, loop>>

\* manager.update_context(context) on the manager the last call was made on:
\* self.context = context
call_update_context(context) ==
  /\ fn.op \in {"build_system_prompt", "update_context"}
  /\ fn' = [op |-> "update_context", context |-> context,
            earlier |-> IF fn.op = "build_system_prompt"
                        THEN [op |-> fn.op, context |-> fn.context,
                              kwargs |-> fn.kwargs, result |-> fn.result]
                        ELSE fn.earlier]
  /\ UNCHANGED <<app_vars, loop>>

\* get_history(user_id, db) as GET /api/history calls it, on a table that
\* holds one row of u2 and then n rows of u1 appended at the instants 1..n
call_get_history(n) ==
  /\ LET history ==
           [i \in 1..(n + 1) |->
              [user_id |-> IF i = 1 THEN "u2" ELSE "u1", question |-> T_QUESTION,
               answer |-> <<"Y", "e", "s">>, created_at |-> i - 1]]
         order == [k \in 1..n |-> n + 2 - k]
     IN /\ order \in HistoryOrders(HistoryIds("u1", history), history)
        /\ fn' = [op |-> "get_history", user_id |-> "u1", appended |-> n,
                  result |-> get_history_db("u1", history, DEFAULT_HISTORY_LIMIT,
                                            order)]
  /\ UNCHANGED <<app_vars, loop>>

(* ------------------ the event loop and its tasks (LoopSpec) ----------- *)
\* the coroutines the loop may be running at once
Tasks == {"t1", "t2"}

\* the audio frames one WebSocket connection sends at most
MaxFrames == 2

\* the external model calls each handler's coroutine makes, in order, for one
\* request or for one audio frame of a connection, and how it makes each:
\* inline in the coroutine, or by loop.run_in_executor and await.
\* process_audio and the WebSocket loop raise on a question before their
\* generator call and generate_answer raises before its own, so that no
\* handler reaches generate_response_async, the one offloaded call
HandlerCalls ==
  [process_audio |-> <<[call |-> "transcribe", offloaded |-> FALSE]>>,
   transcribe_audio |-> <<[call |-> "transcribe", offloaded |-> FALSE]>>,
   generate_answer |-> <<>>,
   websocket_audio_stream |-> <<[call |-> "transcribe", offloaded |-> FALSE]>>,
   health_check |-> <<[call |-> "check_connection", offloaded |-> FALSE]>>,
   start_session |-> <<>>]

\* the calls a started coroutine makes in all: a connection's, frame by frame
RECURSIVE TaskCalls(_, _)
TaskCalls(handler, frames) ==
  IF frames = 0 THEN <<>>
  ELSE HandlerCalls[handler] \o TaskCalls(handler, frames - 1)

\* the loop starts the coroutine of a request, or of a connection that will
\* send so many audio frames
loop_start(t, handler, frames) ==
  /\ loop.holder = "none"
  /\ loop.tasks[t].handler = "none"
  /\ loop' = [loop EXCEPT !.tasks[t] = [handler |-> handler, made |-> 0,
                                        calls |-> TaskCalls(handler, frames),
                                        calling |-> FALSE, outcome |-> GenUnused]]
  /\ UNCHANGED <<app_vars, fn>>

\* the loop runs the coroutine up to its next engine call: an inline call
\* runs on the loop's thread, an offloaded one in the executor while the
\* coroutine awaits
loop_begin_call(t) ==
  /\ loop.holder = "none"
  /\ loop.tasks[t].handler # "none"
  /\ ~loop.tasks[t].calling
  /\ loop.tasks[t].made < Len(loop.tasks[t].calls)
  /\ LET next == loop.tasks[t].calls[loop.tasks[t].made + 1]
     IN loop' = [loop EXCEPT !.tasks[t].calling = TRUE,
                             !.holder = IF next.offloaded THEN "none" ELSE t]
  /\ UNCHANGED <<app_vars, fn>>

\* the engine call of a handler's coroutine returns
loop_end_call(t) ==
  /\ loop.tasks[t].handler \in DOMAIN HandlerCalls
  /\ loop.tasks[t].calling
  /\ loop' = [loop EXCEPT !.tasks[t].calling = FALSE,
                          !.tasks[t].made = @ + 1,
                          !.holder = IF @ = t THEN "none" ELSE @]
  /\ UNCHANGED <<app_vars, fn>>

\* a coroutine that is not running
NoTask == [handler |-> "none", made |-> 0, calls |-> <<>>, calling |-> FALSE,
           outcome |-> GenUnused]

\* await gemini_client.generate_response_async(...) by a caller of its own, up
\* to the await of loop.run_in_executor: model.generate_content, which will
\* do `outcome`, begins on an executor thread and the caller's task is
\* suspended, the loop being free for the other tasks
call_generate_response_async(t, outcome) ==
  /\ loop.holder = "none"
  /\ loop.tasks[t].handler = "none"
  /\ loop' = [loop EXCEPT !.tasks[t] =
                 [handler |-> "generate_response_async", made |-> 0,
                  calls |-> <<[call |-> "generate_content", offloaded |-> TRUE]>>,
                  calling |-> TRUE, outcome |-> outcome]]
  /\ UNCHANGED <<app_vars, fn>>

\* generate_content has ended and the loop resumes the caller at the await:
\* the text is stripped and returned, or the exception wrapped and raised
return_generate_response_async(t) ==
  /\ loop.holder = "none"
  /\ loop.tasks[t].handler = "generate_response_async"
  /\ loop.tasks[t].calling
  /\ fn' = [op |-> "generate_response_async", outcome |-> loop.tasks[t].outcome,
            cancelled |-> FALSE,
            result |-> generate_response_async(loop.tasks[t].outcome)]
  /\ loop' = [loop EXCEPT !.tasks[t] = NoTask]
  /\ UNCHANGED app_vars

\* the caller's task is cancelled while it is suspended at the await: the
\* loop throws CancelledError into it there, which `except Exception` does not
\* catch; generate_content runs on in the executor with no one to take its
\* result
cancel_generate_response_async(t) ==
  /\ loop.holder = "none"
  /\ loop.tasks[t].handler = "generate_response_async"
  /\ loop.tasks[t].calling
  /\ fn' = [op |-> "generate_response_async", outcome |-> loop.tasks[t].outcome,
            cancelled |-> TRUE, result |-> Raise("CancelledError", "")]
  /\ loop' = [loop EXCEPT !.tasks[t] = NoTask]
  /\ UNCHANGED app_vars

(* --------------------------- specifications --------------------------- *)
Init ==
  /\ config \in Configs
  /\ gemini_client = FALSE
  /\ transcription_engine = FALSE
  /\ interview_contexts = <<>>
  /\ interview_history = <<>>
  /\ clock = 0
  /\ metrics = MetricsZero
  /\ nreq = 0
  /\ last = [op |-> "none"]
  /\ ws = [c \in Conns |-> WsNew]
  /\ db_calls = 0
  /\ db_last = [op |-> "none"]
  /\ db_session = NoWrites
  /\ fn = [op |-> "none"]
  /\ loop = [holder |-> "none",
             tasks |-> [t \in Tasks |-> NoTask]]

\* the application: the REST handlers and the WebSocket handler
Next ==
  \/ \E h \in PipelineHeaders, a \in AudioInputs :
       \E stt \in SttScripts(a # <<>>) :
         \E gen \in GenScripts(a # <<>> /\ stt \in SttQuestions) :
           \E d1 \in TicksIf(gen \in GenAnswers), d2 \in TicksIf(gen \in GenAnswers) :
             process_audio(h, a, stt, gen, d1, d2)
  \/ \E h \in PipelineHeaders, r \in TranscribeRequests :
       \E stt \in SttScripts(Decodes(r)) : transcribe_audio(h, r, stt, 0)
  \/ \E h \in PipelineHeaders, r \in GenerateRequests, gen \in GenOutcomes :
       generate_answer(h, r, gen, 0)
  \/ \E h \in AuthHeaders : get_context(h)
  \/ \E h \in AuthHeaders, r \in ContextRequests, d \in Ticks : update_context(h, r, d)
  \/ \E h \in AuthHeaders : get_history(h)
  \/ \E gemini_ok \in BOOLEAN : health_check(gemini_ok /\ config.gemini_api_key # "", 0)
  \/ \E h \in PipelineHeaders : start_session(h)
  \/ \E c \in Conns, t \in WsTokens : ws_accept(c, t)
  \/ \E c \in Conns : ws_authenticate(c)
  \/ \E c \in Conns : ws_reject(c)
  \/ \E c \in Conns : ws_disconnect(c)
  \/ \E c \in Conns, f \in WsFrames :
       \E stt \in SttScripts(ReachesEngine(f)),
          d \in TicksIf("data" \in DOMAIN f.obj) :
         ws_receive(c, f, stt, d)
  \/ \E c \in Conns : ws_classify(c)
  \/ \E c \in Conns, chunks \in StreamChunks, n \in StreamFailures :
       ws_answer(c, chunks, n)

Spec == Init /\ [][Next]_vars

\* the storage operations exercised directly
DbNext ==
  \/ \E u \in SessionKeys, a \in DbAnswers, d \in Ticks :
       db_add_history_entry(u, T_QUESTION, a, d)
  \/ \E u \in SessionKeys, x \in DbContexts, d \in Ticks : db_update_context(u, x, d)
  \/ \E u \in SessionKeys : db_get_context(u)
  \/ \E u \in SessionKeys : db_get_history(u)
  \/ \E u \in SessionKeys, d \in Ticks : db_clear_history(u, d)
  \/ db_close

DbSpec == Init /\ [][DbNext]_vars

\* the functions of core/ and db_operations called directly
PureNext ==
  \/ \E n \in {0, 1, DEFAULT_HISTORY_LIMIT, DEFAULT_HISTORY_LIMIT + 1} :
       call_get_history(n)
  \/ \E given \in Detectors, text \in DetectorTexts :
       call_is_question(given, text)
  \/ \E context \in [cv : {<<>>, <<"P", "y", "t", "h", "o", "n">>},
                      company_name : {<<>>, <<"A", "c", "m", "e">>},
                      position : {<<>>, <<"D", "e", "v">>}],
        same \in BOOLEAN :
       call_build_system_prompt(context, <<>>, same)
  \/ \E context \in [cv : {<<>>, <<"P", "y", "t", "h", "o", "n">>},
                      company_name : {<<>>, <<"A", "c", "m", "e">>},
                      position : {<<>>, <<"D", "e", "v">>}],
        custom \in {<<>>, <<"B", "e", " ", "b", "r", "i", "e", "f">>},
        same \in BOOLEAN :
       call_build_system_prompt(context,
                                [cv |-> context.cv, company |-> context.company_name,
                                 position |-> context.position,
                                 custom_system_prompt |-> custom],
                                same)
  \/ \E context \in [cv : {<<>>, <<"P", "y", "t", "h", "o", "n">>},
                      company_name : {<<>>, <<"A", "c", "m", "e">>},
                      position : {<<>>, <<"D", "e", "v">>}] :
       call_update_context(context)
  \/ \E api_key \in {"", "key"}, model \in {"gemini-1.5-pro", "gemini-9"} :
       call_GeminiClient(api_key, model)
  \/ \E cfg \in Configs, same \in BOOLEAN : call_initialize_engines(cfg, same)

PureSpec == Init /\ [][PureNext]_vars

\* the scheduling of the coroutines on the event loop: the handlers', and
\* those of the callers of generate_response_async, with what another task
\* runs when it has the loop (is_question, as after a transcription)
LoopNext ==
  \/ \E t \in Tasks, handler \in DOMAIN HandlerCalls :
       \E frames \in IF handler = "websocket_audio_stream" THEN 0..MaxFrames ELSE {1} :
         loop_start(t, handler, frames)
  \/ \E t \in Tasks : loop_begin_call(t)
  \/ \E t \in Tasks : loop_end_call(t)
  \/ \E t \in Tasks, outcome \in GenCalls : call_generate_response_async(t, outcome)
  \/ \E t \in Tasks : return_generate_response_async(t)
  \/ \E t \in Tasks : cancel_generate_response_async(t)
  \/ \E text \in {T_QUESTION, T_STATEMENT} :
       /\ loop.holder = "none"
       /\ call_is_question([markers |-> None, min_length |-> 0, supplied |-> {}], text)

LoopSpec == Init /\ [][LoopNext]_vars


(* ============================ the claims ============================== *)
\* the last REST call was POST /api/process_audio and it reached the try block
ProcessedAudio == last.op = "process_audio" /\ last.entered

\* C1, as the claim states it: when process_audio finds a question and the
\* blocking generation returns a non-empty answer, the response is a success
\* and exactly one history row is appended under the caller's session key,
\* whose question, answer and timestamp equal those of the response.
C1_AnswerRecorded ==
  (ProcessedAudio /\ last.is_q /\ last.gen \in GenAnswers) =>
    /\ last.resp.status = 200
    /\ last.resp.success
    /\ Len(last.post_history) = Len(last.pre_history) + 1
    /\ SubSeq(last.post_history, 1, Len(last.pre_history)) = last.pre_history
    /\ LET row == last.post_history[Len(last.post_history)]
       IN /\ row.user_id = last.session_id
          /\ row.question = last.resp.question
          /\ row.answer = last.resp.answer
          /\ isoformat(row.created_at) = last.resp.timestamp

\* C1's case: a question was transcribed and the generator holds an answer
C1_QuestionWithAnswerAtHand ==
  ProcessedAudio /\ last.is_q /\ last.gen \in GenAnswers /\ last.transcript = T_QUESTION

\* C2: when the transcription yields an empty transcript, process_audio
\* answers success = true with question and answer null, the generator is
\* not invoked and the history is left as it was.
C2_EmptyTranscript ==
  (ProcessedAudio /\ last.stt_called /\ ~Truthy(last.transcript)) =>
    /\ last.resp.status = 200
    /\ last.resp.success
    /\ last.resp.question = None
    /\ last.resp.answer = None
    /\ ~last.gen_called
    /\ last.post_history = last.pre_history

\* C2's case: the engine was asked and gave nothing, and the call succeeded
C2_EmptyTranscriptAnswered ==
  /\ ProcessedAudio /\ last.stt_called /\ last.transcript = None
  /\ last.resp.status = 200

\* C3: when the transcript is non-empty and is not a question, process_audio
\* answers success = true with transcription = the transcript and question
\* and answer null, and neither the generator nor the history is touched.
C3_NotAQuestion ==
  (/\ ProcessedAudio /\ last.stt_called /\ Truthy(last.transcript)
   /\ ~is_question(question_detector, last.transcript)) =>
    /\ last.resp.status = 200
    /\ last.resp.success
    /\ last.resp.transcription = last.transcript
    /\ last.resp.question = None
    /\ last.resp.answer = None
    /\ ~last.gen_called
    /\ last.post_history = last.pre_history

\* C3's case: a statement was transcribed and the call succeeded
C3_StatementAnswered ==
  /\ ProcessedAudio /\ last.transcript \in {T_STATEMENT, T_SHORT}
  /\ last.resp.status = 200 /\ last.resp.transcription = last.transcript

\* C4, as the claim states it: when process_audio finds a question and the
\* generation returns an empty answer without raising, the response is
\* success = true with question = the transcript and answer null, and no
\* history row is written.
C4_EmptyAnswer ==
  (/\ ProcessedAudio /\ last.is_q
   /\ ~generate_response_async(last.gen).raised
   /\ ~Truthy(generate_response_async(last.gen).val)) =>
    /\ last.resp.status = 200
    /\ last.resp.success
    /\ last.resp.question = last.transcript
    /\ last.resp.answer = None
    /\ last.post_history = last.pre_history

\* C4's case: a question was transcribed and the generator holds an empty text
C4_QuestionWithEmptyAnswerAtHand ==
  /\ ProcessedAudio /\ last.is_q /\ last.gen = EngineText(<<" ">>)
  /\ last.transcript = T_QUESTION

\* C6, as the claim states it for POST /api/context: the update is accepted,
\* and a read of the same session key that follows it returns exactly the cv,
\* company, position and custom_system_prompt submitted.
C6_ReadReturnsUpdate ==
  (last.op = "update_context") =>
    /\ last.resp.status = 200
    /\ get_context_response(last.session_id, last.post_contexts)
         = ContextResponse(last.request.cv, last.request.company,
                           last.request.position,
                           last.request.custom_system_prompt)

\* C6's case: a context was submitted for a session key
C6_UpdateSubmitted ==
  /\ last.op = "update_context" /\ last.session_id = "u1"
  /\ last.request.custom_system_prompt = <<"X">>

\* the rows a session key holds in a table
RowsOf(user_id, table) == SelectSeq(table, LAMBDA row : row.user_id = user_id)

\* C7: a context update or a history append under session key A, made as the
\* handlers make it, on a Session opened for it, leaves the stored context and
\* the stored history of every other key B as they were.
C7_OtherKeysUntouched ==
  (/\ db_last.op \in {"update_context", "add_history_entry"}
   /\ db_last.pre_session = NoWrites) =>
    \A b \in SessionKeys \ {db_last.user_id} :
      /\ RowsOf(b, interview_contexts) = RowsOf(b, db_last.pre_contexts)
      /\ RowsOf(b, interview_history) = RowsOf(b, db_last.pre_history)

\* C7's case: u1 has just written its context and its history while u2 holds
\* a context and anonymous holds a history row
C7_WritesBesideOtherKeys ==
  /\ db_last.op \in {"update_context", "add_history_entry"}
  /\ db_last.pre_session = NoWrites
  /\ db_last.user_id = "u1" /\ ~db_last.raised
  /\ (interview_contexts # db_last.pre_contexts
      \/ interview_history # db_last.pre_history)
  /\ RowsOf("u2", interview_contexts) # <<>>
  /\ RowsOf("anonymous", interview_history) # <<>>

\* C8, as the claim states it: a session key never holds more than one stored
\* context, and once an update has completed a read of its key returns the
\* values of that update.
C8_LatestWriteWins ==
  /\ \A u \in SessionKeys : Len(RowsOf(u, interview_contexts)) <= 1
  /\ (db_last.op = "update_context" /\ ~db_last.raised) =>
       LET got == get_context_db(db_last.user_id, interview_contexts)
       IN /\ ~got.raised
          /\ GetAttr(got.val, "cv") = GetAttr(db_last.context, "cv")
          /\ GetAttr(got.val, "company") = GetAttr(db_last.context, "company")
          /\ GetAttr(got.val, "position") = GetAttr(db_last.context, "position")

\* C8's case: a second update of the same key has completed
C8_SecondUpdateCompleted ==
  /\ db_last.op = "update_context" /\ ~db_last.raised
  /\ RowsOf(db_last.user_id, db_last.pre_contexts) # <<>>
  /\ RowsOf(db_last.user_id, interview_contexts)
       # RowsOf(db_last.user_id, db_last.pre_contexts)

\* the connection's token names no principal
NoValidPrincipal(conn) == conn.token \notin {TokenOf(u) : u \in Users}

\* C9, as the claim states it: when authentication is required and the
\* connection presents no valid principal, the server sends exactly one error
\* event and closes with code 1008; the connection is never OPEN and no
\* message of it is read, so no pipeline or store operation runs for it.
C9_Rejected ==
  \A c \in Conns :
    (/\ config.require_auth /\ NoValidPrincipal(ws[c])
     /\ ws[c].pc \notin {"connect", "accepted"}) =>
      /\ ws[c].state # "OPEN"
      /\ ws[c].inbox = <<>>
      /\ ws[c].outbox = <<Event("error", AUTH_REQUIRED_MESSAGE, 0)>>
      /\ ws[c].pc = "done" => ws[c].close_code = 1008

\* C9's case: a connection without a valid token has been handled to its
\* end where authentication is required
C9_UnauthenticatedHandled ==
  \E c \in Conns :
    /\ config.require_auth /\ NoValidPrincipal(ws[c])
    /\ ws[c].token = TOKEN_INVALID /\ ws[c].pc = "done"

\* the place of an event type in the events of one audio message
EventRank(type) ==
  CASE type = "transcription" -> 1
    [] type = "question_detected" -> 2
    [] type \in {"answer_chunk", "answer", "answer_final"} -> 3
    [] OTHER -> 0

\* the events the connection sent for its k-th frame, in sending order
EventsFor(conn, k) == SelectSeq(conn.outbox, LAMBDA e : e.cause = k)

HowMany(events, type) == Len(SelectSeq(events, LAMBDA e : e.type = type))

\* C10: the events of one audio message are sent in the order transcription,
\* question_detected, answer events; a transcription event is sent iff the
\* transcript is non-empty and a question_detected event iff the transcript
\* is classified as a question; no answer event comes before the
\* question_detected of its message; and every event of one message is sent
\* before any event of a later message.
C10_EventOrder ==
  \A c \in Conns :
    LET conn == ws[c]
        out == conn.outbox
    IN /\ \A i, j \in 1..Len(out) : i < j => out[i].cause <= out[j].cause
       /\ \A k \in 1..Len(conn.inbox) :
            conn.inbox[k].type = "audio" =>
              LET ev == EventsFor(conn, k)
                  text == conn.inbox[k].transcript
                  classified == k < Len(conn.inbox) \/ conn.pc # "transcribed"
              IN /\ \A i, j \in 1..Len(ev) :
                      i < j => EventRank(ev[i].type) <= EventRank(ev[j].type)
                 /\ \A i \in 1..Len(ev) : EventRank(ev[i].type) > 0
                 /\ HowMany(ev, "transcription") = IF Truthy(text) THEN 1 ELSE 0
                 /\ HowMany(ev, "question_detected") =
                      IF classified /\ is_question(question_detector, text)
                      THEN 1 ELSE 0
                 /\ \A i \in 1..Len(ev) :
                      EventRank(ev[i].type) = 3 =>
                        \E j \in 1..(i - 1) : ev[j].type = "question_detected"

\* C10's case: an audio message drew a transcription event and then a
\* question_detected event
C10_QuestionEventsSent ==
  \E c \in Conns :
    /\ Len(ws[c].outbox) >= 2
    /\ ws[c].outbox[1].type = "transcription"
    /\ ws[c].outbox[2].type = "question_detected"
    /\ ws[c].outbox[2].cause = ws[c].outbox[1].cause

\* the connection has finished with its k-th frame
Handled(conn, k) == k < Len(conn.inbox) \/ conn.pc \in {"receive", "done"}

\* C11, as the claim states it: once the audio message that drew a
\* question_detected event is dealt with, the events after that
\* question_detected are answer_chunk events, zero or more, and then exactly
\* one answer_final event, the last event of the message.
C11_AnswerFinalFollows ==
  \A c \in Conns :
    \A k \in 1..Len(ws[c].inbox) :
      LET ev == EventsFor(ws[c], k)
      IN (HowMany(ev, "question_detected") = 1 /\ Handled(ws[c], k)) =>
           /\ HowMany(ev, "answer_final") = 1
           /\ ev[Len(ev)].type = "answer_final"
           /\ \A i \in 1..Len(ev) :
                ev[i].type \in {"transcription", "question_detected",
                                "answer_chunk", "answer_final"}

\* C11's case: the message of a question_detected event has been dealt with
C11_QuestionHandled ==
  \E c \in Conns :
    /\ Len(ws[c].inbox) = 1 /\ Handled(ws[c], 1)
    /\ HowMany(EventsFor(ws[c], 1), "question_detected") = 1

\* the complete answer of a stream: the deltas the handler forwards, joined
StreamedAnswer(stream) ==
  Strip(Join(SelectSeq(stream_response(stream.chunks, stream.fails_after),
                       LAMBDA chunk : Strip(chunk) # <<>>)))

\* C12, as the claim states it: when an audio message of a connection yields
\* a question and the model's stream runs to its end with a non-empty
\* complete answer, the history of the connection's session key holds a row
\* with that question and that answer, which GET /api/history returns.
C12_StreamedAnswerRecorded ==
  \A c \in Conns :
    LET conn == ws[c]
        k == conn.stream.cause
        answer == StreamedAnswer(conn.stream)
    IN (/\ k > 0 /\ Handled(conn, k)
        /\ conn.stream.fails_after > Len(conn.stream.chunks)
        /\ answer # <<>>) =>
         \E order \in HistoryOrders(HistoryIds(conn.session_id, interview_history),
                                    interview_history) :
           \E entry \in
               {get_history_db(conn.session_id, interview_history,
                               DEFAULT_HISTORY_LIMIT, order)[i] :
                  i \in 1..Len(order)} :
             /\ entry.question = conn.text
             /\ entry.answer = answer

\* C12's case: a question's stream with a non-empty complete answer was at
\* hand and the message has been dealt with
C12_StreamAtHand ==
  \E c \in Conns :
    /\ ws[c].stream.cause = 1 /\ Handled(ws[c], 1)
    /\ ws[c].stream.fails_after > Len(ws[c].stream.chunks)
    /\ StreamedAnswer(ws[c].stream) = <<"Y", "e", "s", "!">>

\* message["type"] of a frame is `type`
IsOfType(frame, type) ==
  frame.valid /\ "type" \in DOMAIN frame.obj /\ frame.obj.type = type

HasData(frame) == frame.valid /\ "data" \in DOMAIN frame.obj

\* C13, as the claim states it: a context message with a data object, read
\* while the connection is OPEN, overwrites the context of the session key
\* with the fields supplied, draws exactly one status event and leaves the
\* connection OPEN, whether or not an audio message came before it.
C13_ContextAcknowledged ==
  \A c \in Conns :
    \A k \in 1..Len(ws[c].inbox) :
      LET conn == ws[c]
          frame == conn.inbox[k].frame
      IN (IsOfType(frame, "context") /\ HasData(frame)) =>
           /\ HowMany(EventsFor(conn, k), "status") = 1
           /\ Len(EventsFor(conn, k)) = 1
           /\ k = Len(conn.inbox) =>
                /\ conn.close_code = 0
                /\ LET i == FirstContextRow(conn.session_id, interview_contexts)
                   IN /\ i # 0
                      /\ interview_contexts[i].cv = DictGet(frame.obj.data, "cv")
                      /\ interview_contexts[i].company
                           = DictGet(frame.obj.data, "company")
                      /\ interview_contexts[i].position
                           = DictGet(frame.obj.data, "position")

\* C13's case: an OPEN connection has read a context message with data, one
\* as its first frame and one after an audio message
C13_ContextReceived ==
  \E c \in Conns :
    /\ Len(ws[c].inbox) = 2
    /\ ws[c].inbox[1].type = "audio" /\ Truthy(ws[c].inbox[1].transcript)
    /\ IsOfType(ws[c].inbox[2].frame, "context") /\ HasData(ws[c].inbox[2].frame)

\* C14: a ping message read while the connection is OPEN draws exactly one
\* pong event and nothing else: no engine runs (the counters stand), the
\* contexts and the history stand, no other event is sent and the connection
\* stays OPEN, waiting for the next frame.
C14_PingPong ==
  [][\A c \in Conns :
       (/\ Len(ws'[c].inbox) = Len(ws[c].inbox) + 1
        /\ IsOfType(ws'[c].inbox[Len(ws'[c].inbox)].frame, "ping")) =>
         /\ ws'[c].outbox
              = Append(ws[c].outbox, Event("pong", <<>>, Len(ws'[c].inbox)))
         /\ ws'[c].state = "OPEN" /\ ws'[c].pc = "receive"
         /\ ws'[c].close_code = 0
         /\ metrics' = metrics
         /\ interview_contexts' = interview_contexts
         /\ interview_history' = interview_history
         /\ gemini_client' = gemini_client
         /\ transcription_engine' = transcription_engine]_vars

\* C14's case: a ping came after an audio message and was answered
C14_PingAnswered ==
  \E c \in Conns :
    /\ Len(ws[c].inbox) = 2 /\ ws[c].inbox[1].type = "audio"
    /\ IsOfType(ws[c].inbox[2].frame, "ping")
    /\ ws[c].outbox[Len(ws[c].outbox)].type = "pong" /\ ws[c].state = "OPEN"

\* a frame that is no valid JSON, lacks its type or the data its type needs,
\* or is of a type other than audio, context and ping
Ignorable(frame) ==
  \/ ~frame.valid
  \/ "type" \notin DOMAIN frame.obj
  \/ frame.obj.type \notin {"audio", "context", "ping"}
  \/ "data" \notin DOMAIN frame.obj /\ frame.obj.type \in {"audio", "context"}

\* C15, as the claim states it: a malformed frame or a frame of an unknown
\* type, read while the connection is OPEN, is ignored: no event is sent,
\* the contexts and the history stand, and the connection stays OPEN.
C15_MalformedIgnored ==
  [][\A c \in Conns :
       (/\ Len(ws'[c].inbox) = Len(ws[c].inbox) + 1
        /\ Ignorable(ws'[c].inbox[Len(ws'[c].inbox)].frame)) =>
         /\ ws'[c].outbox = ws[c].outbox
         /\ ws'[c].state = "OPEN" /\ ws'[c].pc = "receive"
         /\ interview_contexts' = interview_contexts
         /\ interview_history' = interview_history]_vars

\* C15's case: a frame that is no JSON has been read
C15_MalformedReceived ==
  \E c \in Conns :
    /\ Len(ws[c].inbox) = 1 /\ ~ws[c].inbox[1].frame.valid

\* C16, as the claim states it: a connection that an exception in the
\* message loop has closed was sent an error event first, its last event.
C16_ErrorBeforeClose ==
  \A c \in Conns :
    (ws[c].state = "CLOSED" /\ ws[c].close_code = 1000) =>
      /\ ws[c].outbox # <<>>
      /\ ws[c].outbox[Len(ws[c].outbox)].type = "error"

\* C16's case: the except clause of the message loop has closed a connection
C16_LoopFailed ==
  \E c \in Conns :
    /\ ws[c].state = "CLOSED" /\ ws[c].close_code = 1000
    /\ Len(ws[c].inbox) = 1 /\ "type" \notin DOMAIN ws[c].inbox[1].frame.obj


\* the REST handlers of the pipeline and of the two stores
RestOps == {"process_audio", "generate", "transcribe", "get_context",
            "update_context", "get_history"}

\* whether the last REST request reached a transcription, a generation or an
\* operation of the Context Store or the History Store
PipelineEntered ==
  \/ last.op \in {"get_context", "update_context", "get_history"}
  \/ /\ last.op \in {"process_audio", "generate", "transcribe"}
     /\ last.stt_called \/ last.gen_called

\* C17: with require_auth set, a REST request that carries no valid credential
\* is answered 401 and reaches no transcription, no generation and no store
\* operation.
C17_Unauthorized401 ==
  (last.op \in RestOps /\ config.require_auth /\ last.session_id = "anonymous")
    => (last.resp.status = 401 /\ ~PipelineEntered)

\* C17 witness: with require_auth set, GET /api/history without a valid
\* credential has been handled.
C17_UnauthenticatedRest ==
  /\ last.op = "get_history"
  /\ config.require_auth
  /\ last.session_id = "anonymous"


\* a response that tells the client the request failed
FailureResponse(resp) ==
  resp.status >= 400 \/ ("success" \in DOMAIN resp /\ ~resp.success)

\* C19: when the transcription engine fails in process_audio the error metric
\* of the endpoint is incremented and the client gets a failure response, and
\* when it fails on a WebSocket audio message the error metric of /ws/audio is
\* incremented and the client gets an error event for that message.
C19_TranscriptionFailureSurfaced ==
  /\ (ProcessedAudio /\ last.stt_raised)
       => (last.errors > 0 /\ FailureResponse(last.resp))
  /\ \A c \in Conns :
       \A k \in 1..Len(ws[c].inbox) :
         ws[c].inbox[k].stt_raised
           => /\ metrics.error_count[<<"websocket_error", "/ws/audio">>] > 0
              /\ HowMany(EventsFor(ws[c], k), "error") > 0

\* C19 witness: process_audio was handled with the transcription engine
\* raising on the uploaded audio.
C19_EngineFailedOnAudio ==
  /\ ProcessedAudio
  /\ last.stt_raised
  /\ last.audio # <<>>


\* C20: when the model's stream for a question of a connection fails before
\* its end, the error metric of /ws/audio is incremented, the client gets an
\* error event for that message, the connection is closed, and no
\* answer_final is sent for it.
C20_StreamFailureSurfaced ==
  \A c \in Conns :
    LET conn == ws[c]
        k == conn.stream.cause
    IN (/\ k > 0 /\ Handled(conn, k)
        /\ conn.stream.fails_after <= Len(conn.stream.chunks)) =>
         /\ metrics.error_count[<<"websocket_error", "/ws/audio">>] > 0
         /\ HowMany(EventsFor(conn, k), "error") > 0
         /\ conn.state = "CLOSED"
         /\ HowMany(EventsFor(conn, k), "answer_final") = 0

\* C20's case: a question's stream that fails after its second chunk was at
\* hand and the message has been dealt with
C20_PartialStreamAtHand ==
  \E c \in Conns :
    /\ ws[c].stream.cause = 1 /\ Handled(ws[c], 1)
    /\ ws[c].stream.chunks # <<>>
    /\ ws[c].stream.fails_after = 2


\* C21, as the claim states it: every call of generate_response_async either
\* returns the model's answer text, or, when the model call fails, raises an
\* exception whose message is "Gemini API Error: " followed by the text of the
\* underlying exception; a failure is never a returned value.
C21_TwoOutcomesOfEveryCall ==
  fn.op = "generate_response_async" =>
    IF fn.outcome.kind = "raise"
    THEN /\ fn.result.raised
         /\ fn.result.exc = "Exception"
         /\ fn.result.msg[1] = "Gemini API Error: "
         /\ fn.result.msg[2] = fn.outcome.text
    ELSE /\ ~fn.result.raised
         /\ fn.result.val = Strip(fn.outcome.text)

\* C21, amended: every call of generate_response_async whose task is not
\* cancelled while it awaits the model call either returns the model's answer
\* text or raises the wrapped exception, and a failure is never a returned
\* value; a call whose task is cancelled at that await raises CancelledError,
\* not wrapped.
C21_AnswerOrWrappedError ==
  fn.op = "generate_response_async" =>
    IF fn.cancelled
    THEN fn.result = Raise("CancelledError", "")
    ELSE IF fn.outcome.kind = "raise"
         THEN /\ fn.result.raised
              /\ fn.result.exc = "Exception"
              /\ fn.result.msg[1] = "Gemini API Error: "
              /\ fn.result.msg[2] = fn.outcome.text
         ELSE /\ ~fn.result.raised
              /\ fn.result.val = Strip(fn.outcome.text)

\* C21 witness: generate_response_async was called and not cancelled, the
\* model call failed with a text, and the call raised.
C21_GenerationFailed ==
  /\ fn.op = "generate_response_async"
  /\ ~fn.cancelled
  /\ fn.outcome = EngineRaiseWith(UPSTREAM_TEXT)
  /\ fn.result.raised


\* C22: a process_audio request, a generate request and a WebSocket audio
\* message each invoke the transcription engine at most once and the
\* generator at most once, whatever the invocation returns.
C22_NoRetries ==
  /\ last.op \in {"process_audio", "generate"}
       => (last.stt_calls <= 1 /\ last.gen_calls <= 1)
  /\ \A c \in Conns :
       /\ \A k \in 1..Len(ws[c].inbox) : ws[c].inbox[k].stt_calls <= 1
       /\ ws[c].stream.gen_calls <= 1

\* C22 witness: process_audio was handled with the transcription engine
\* failing, and the engine was invoked.
C22_FailedInvocation ==
  /\ ProcessedAudio
  /\ last.stt_raised
  /\ last.stt_calls = 1


\* C23: while the engine call of one coroutine is in progress the event loop
\* is not held, so that the steps of the other coroutines can be scheduled.
C23_LoopNeverHeld ==
  \A t \in Tasks : loop.tasks[t].calling => loop.holder = "none"

\* C23 witness: the transcription call of one coroutine is in progress while
\* another coroutine has been started and has engine calls left to make.
C23_CallInProgress ==
  \E t \in Tasks, u \in Tasks :
    /\ t # u
    /\ loop.tasks[t].calling
    /\ loop.tasks[t].calls[loop.tasks[t].made + 1].call = "transcribe"
    /\ loop.tasks[u].handler # "none"
    /\ ~loop.tasks[u].calling
    /\ loop.tasks[u].made < Len(loop.tasks[u].calls)


\* C24: no storage operation the REST and WebSocket handlers call removes or
\* changes a history row: after every step of one the rows that existed before
\* it are still there, unchanged and in place, so the history of every session
\* key only grows.  (clear_history is called by no handler.)
C24_AppendOnly ==
  [][db_last'.op # "clear_history" =>
       /\ Len(interview_history') >= Len(interview_history)
       /\ SubSeq(interview_history', 1, Len(interview_history)) = interview_history]_vars

\* C24 witness: a row was appended to a history that already held one.
C24_AppendedToHistory ==
  /\ db_last.op = "add_history_entry"
  /\ db_last.pre_history # <<>>
  /\ Len(interview_history) > Len(db_last.pre_history)


\* C25: get_history, as GET /api/history calls it, returns every row appended
\* under the caller's session key and no other row, the newest first.
C25_HistoryNewestFirst ==
  fn.op = "get_history" =>
    /\ Len(fn.result) = fn.appended
    /\ \A k \in 1..Len(fn.result) :
         /\ fn.result[k].timestamp = isoformat(fn.appended + 1 - k)
         /\ fn.result[k].question = T_QUESTION

\* C25 witness: the history was read for a session key that holds one row
\* more than DEFAULT_HISTORY_LIMIT.
C25_LongHistoryRead ==
  /\ fn.op = "get_history"
  /\ fn.appended = DEFAULT_HISTORY_LIMIT + 1


\* the four reads a handler makes of the session's context to call the
\* Prompt Builder all yield strings, and empty ones when no context was
\* written for the session
FourFieldsDefined(session_id) ==
  LET context_data == get_context_db(session_id, interview_contexts)
  IN /\ ~context_data.raised
     /\ \A name \in {"cv", "company", "position", "custom_system_prompt"} :
          /\ ~GetAttr(context_data.val, name).raised
          /\ GetAttr(context_data.val, name).val # None
          /\ RowsOf(session_id, interview_contexts) = <<>>
               => GetAttr(context_data.val, name).val = <<>>

\* C26: whenever process_audio or the WebSocket audio pipeline has a question
\* to answer, the four context fields it hands to the Prompt Builder are
\* defined strings, all empty for a session key without a context write.
C26_BuilderGetsFourFields ==
  /\ (ProcessedAudio /\ last.is_q) => FourFieldsDefined(last.session_id)
  /\ \A c \in Conns :
       (ws[c].stream.cause > 0 /\ Handled(ws[c], ws[c].stream.cause))
         => FourFieldsDefined(ws[c].session_id)

\* C26 witness: process_audio had a question to answer for a session key
\* without a context write.
C26_QuestionWithoutContext ==
  /\ ProcessedAudio
  /\ last.is_q
  /\ RowsOf(last.session_id, interview_contexts) = <<>>


\* C27: is_question is false for every text shorter than the detector's
\* minimum length, the empty text and a short text with a marker included.
C27_ShortTextRejected ==
  (/\ fn.op = "is_question"
   /\ fn.text # None
   /\ Len(fn.text) < fn.detector.min_length) => ~fn.result

\* C27 witness: a detector was asked about a text that is shorter than its
\* minimum length and is one of its markers.
C27_ShortMarkerAsked ==
  /\ fn.op = "is_question"
  /\ fn.text = <<"w", "h", "y">>
  /\ fn.detector = QuestionDetector(None, 0)
  /\ Len(fn.text) < fn.detector.min_length

\* whether `text` contains one of the markers, letter case set aside
HasMarker(text, markers) ==
  \E k \in 1..Len(markers) : Contains(Lower(text), Lower(markers[k]))

\* C28: is_question is true for every text that contains one of the
\* detector's markers, compared without regard to letter case, wherever the
\* marker stands in the text.
C28_MarkerAccepted ==
  (/\ fn.op = "is_question"
   /\ fn.text # None
   /\ HasMarker(fn.text, fn.detector.markers)) => fn.result

\* C28 witness: a detector whose marker has a capital letter was asked about
\* a text of sufficient length that starts with that marker.
C28_CapitalMarkerAsked ==
  /\ fn.op = "is_question"
  /\ fn.detector = QuestionDetector(<< <<"W", "h", "y">> >>, 3)
  /\ fn.text = <<"W", "h", "y", " ", "n", "o", "t", " ", "?">>


\* the custom prompt a call of build_system_prompt was given (none: empty)
CustomGiven ==
  IF "custom_system_prompt" \in DOMAIN fn.kwargs
  THEN fn.kwargs.custom_system_prompt ELSE <<>>

\* C29: build_system_prompt returns a prompt whose base is the custom system
\* prompt, verbatim and in place of the default persona, when that prompt is
\* non-empty, and whose base is the default persona when it is empty
C29_CustomPromptIsBase ==
  fn.op = "build_system_prompt" =>
    /\ ~fn.result.raised
    /\ IF CustomGiven # <<>>
       THEN /\ Len(fn.result.val) >= Len(CustomGiven)
            /\ SubSeq(fn.result.val, 1, Len(CustomGiven)) = CustomGiven
            /\ ~Contains(fn.result.val, DEFAULT_PERSONA)
       ELSE /\ Len(fn.result.val) >= Len(DEFAULT_PERSONA)
            /\ SubSeq(fn.result.val, 1, Len(DEFAULT_PERSONA)) = DEFAULT_PERSONA

\* build_system_prompt was called with a non-empty custom system prompt
C29_CustomPromptGiven ==
  /\ fn.op = "build_system_prompt"
  /\ CustomGiven # <<>>

\* the place of the section label `label` in the prompt `prompt` (0: absent)
LabelAt(prompt, label) ==
  IF \E i \in 1..Len(prompt) : prompt[i] = label
  THEN CHOOSE i \in 1..Len(prompt) : prompt[i] = label
  ELSE 0

\* C30: build_system_prompt, called on a context, returns the base followed by
\* one labeled section for each non-empty field among cv, company and
\* position: a section is there exactly when its field is non-empty, it holds
\* the field's text, and the sections come in the order CV, company, position
C30_SectionsPerField ==
  (fn.op = "build_system_prompt" /\ DOMAIN fn.kwargs = {}) =>
    /\ ~fn.result.raised
    /\ LET prompt == fn.result.val
           at_cv == LabelAt(prompt, "\n\nTWOJE CV:\n")
           at_company == LabelAt(prompt, "\nFIRMA: ")
           at_position == LabelAt(prompt, "\nSTANOWISKO: ")
       IN /\ (at_cv # 0) <=> (fn.context.cv # <<>>)
          /\ (at_company # 0) <=> (fn.context.company_name # <<>>)
          /\ (at_position # 0) <=> (fn.context.position # <<>>)
          /\ at_cv # 0 =>
               Contains(prompt, <<"\n\nTWOJE CV:\n">> \o fn.context.cv \o <<"\n">>)
          /\ at_company # 0 =>
               Contains(prompt, <<"\nFIRMA: ">> \o fn.context.company_name \o <<"\n">>)
          /\ at_position # 0 =>
               Contains(prompt, <<"\nSTANOWISKO: ">> \o fn.context.position \o <<"\n">>)
          /\ (at_cv # 0 /\ at_company # 0) => at_cv < at_company
          /\ (at_company # 0 /\ at_position # 0) => at_company < at_position
          /\ (at_cv # 0 /\ at_position # 0) => at_cv < at_position
          /\ Len(prompt) = Len(DEFAULT_PERSONA)
                           + (IF at_cv # 0 THEN Len(fn.context.cv) + 2 ELSE 0)
                           + (IF at_company # 0
                              THEN Len(fn.context.company_name) + 2 ELSE 0)
                           + (IF at_position # 0
                              THEN Len(fn.context.position) + 2 ELSE 0)

\* build_system_prompt was called on a context with a CV and a position but no
\* company, and returned a prompt
C30_TwoFieldsGiven ==
  /\ fn.op = "build_system_prompt"
  /\ DOMAIN fn.kwargs = {}
  /\ fn.context.cv # <<>>
  /\ fn.context.company_name = <<>>
  /\ fn.context.position # <<>>
  /\ ~fn.result.raised


\* two calls of build_system_prompt were given the same arguments
SameArguments(a, b) ==
  /\ DOMAIN a = DOMAIN b
  /\ \A k \in DOMAIN a : a[k] = b[k]

\* two calls of build_system_prompt were given arguments that differ in
\* company and in nothing else
DifferInCompany(a, b) ==
  /\ DOMAIN a = DOMAIN b
  /\ "company" \in DOMAIN a
  /\ a.company # b.company
  /\ \A k \in DOMAIN a \ {"company"} : a[k] = b[k]

\* the prompt `prompt` without the content of its company block
WithoutCompany(prompt) ==
  LET at == LabelAt(prompt, "\nFIRMA: ")
  IN IF at = 0 THEN prompt
     ELSE LET end == CHOOSE j \in (at + 1)..Len(prompt) :
                       /\ prompt[j] = "\n"
                       /\ \A i \in (at + 1)..(j - 1) : prompt[i] # "\n"
          IN SubSeq(prompt, 1, at) \o SubSeq(prompt, end, Len(prompt))

\* C31: two calls of build_system_prompt on one manager with identical
\* arguments return identical strings, whatever calls of build_system_prompt
\* or update_context came between them, and two calls whose arguments differ
\* only in company return strings that differ only in the company block
C31_FunctionOfArguments ==
  (fn.op = "build_system_prompt" /\ fn.earlier.op = "build_system_prompt") =>
    /\ SameArguments(fn.kwargs, fn.earlier.kwargs) =>
         /\ ~fn.result.raised
         /\ ~fn.earlier.result.raised
         /\ fn.result.val = fn.earlier.result.val
    /\ DifferInCompany(fn.kwargs, fn.earlier.kwargs) =>
         /\ ~fn.result.raised
         /\ ~fn.earlier.result.raised
         /\ WithoutCompany(fn.result.val) = WithoutCompany(fn.earlier.result.val)

\* build_system_prompt was called twice on one manager with the same arguments,
\* update_context having given the manager another context in between, and
\* returned a prompt both times
C31_SameArgumentsTwice ==
  /\ fn.op = "build_system_prompt"
  /\ fn.earlier.op = "build_system_prompt"
  /\ SameArguments(fn.kwargs, fn.earlier.kwargs)
  /\ fn.context # fn.earlier.context
  /\ ~fn.result.raised
  /\ ~fn.earlier.result.raised


\* the maximum absolute sample magnitude of a non-empty sample sequence
MaxMagnitude(samples) ==
  LET Abs(x) == IF x < 0 THEN 0 - x ELSE x
  IN CHOOSE m \in {Abs(samples[i]) : i \in 1..Len(samples)} :
       \A i \in 1..Len(samples) : Abs(samples[i]) <= m

\* C32: in process_audio the buffer passed to the transcription engine is the
\* input divided by 32768 when the maximum absolute sample magnitude of the
\* input exceeds 1.0, negative out-of-range samples included, and the input
\* unchanged otherwise
C32_RescaledIffOutOfRange ==
  (last.op = "process_audio" /\ last.stt_called) =>
    last.stt_input = IF MaxMagnitude(last.audio) > 1
                     THEN Buffer(last.audio, 32768)
                     ELSE Buffer(last.audio, 1)

\* process_audio passed the engine a buffer whose only out-of-range sample is
\* negative
C32_NegativeOutOfRange ==
  /\ last.op = "process_audio"
  /\ last.stt_called
  /\ MaxMagnitude(last.audio) > 1
  /\ \A i \in 1..Len(last.audio) : last.audio[i] <= 1


\* the last request entered its handler with malformed audio: a process_audio
\* request with no sample, or a transcribe request whose decoded bytes are not
\* a whole number of 4-byte samples
MalformedAudio ==
  \/ /\ last.op = "process_audio"
     /\ last.entered
     /\ last.audio = <<>>
  \/ /\ last.op = "transcribe"
     /\ last.entered
     /\ ~b64decode(last.request.audio).raised
     /\ Len(b64decode(last.request.audio).val) % 4 # 0

\* C33: a request with malformed audio is rejected with HTTP 400 and the
\* transcription engine is not invoked
C33_MalformedAudioIs400 ==
  MalformedAudio =>
    /\ last.resp.status = 400
    /\ ~last.stt_called

\* a transcribe request whose audio decodes to three bytes was rejected
\* without the engine being invoked
C33_OddByteLengthSent ==
  /\ MalformedAudio
  /\ last.op = "transcribe"
  /\ Len(b64decode(last.request.audio).val) = 3
  /\ ~last.stt_called


\* C34: POST /api/transcribe, once the engine has been asked, responds with
\* HTTP 400 when the transcription yields nothing, the generic exception path
\* not turning it into a 500, and otherwise with the transcribed text, the
\* requested language and a timestamp
C34_EmptyTranscriptionIs400 ==
  (last.op = "transcribe" /\ last.stt_called) =>
    IF ~Truthy(transcribe(last.stt))
    THEN last.resp.status = 400
    ELSE /\ last.resp.status = 200
         /\ DOMAIN last.resp = {"status", "text", "language", "timestamp"}
         /\ last.resp.text = transcribe(last.stt)
         /\ last.resp.language = last.request.language
         /\ \E t \in 0..clock : last.resp.timestamp = isoformat(t)

\* a transcribe request reached the engine and the transcription yielded
\* nothing
C34_NothingTranscribed ==
  /\ last.op = "transcribe"
  /\ last.stt_called
  /\ ~Truthy(transcribe(last.stt))


\* C35: GeminiClient with an empty API key raises
\* ValueError("GEMINI_API_KEY is required") and yields no client, and with a
\* non-empty key yields a client even for a model outside SUPPORTED_MODELS;
\* initialize_engines leaves gemini_client unset after every failed
\* construction and constructs each engine at most once in a process
C35_ClientNeedsKey ==
  /\ fn.op = "GeminiClient" =>
       IF fn.api_key = ""
       THEN /\ fn.result.raised
            /\ fn.result.exc = "ValueError"
            /\ fn.result.msg = "GEMINI_API_KEY is required"
       ELSE /\ ~fn.result.raised
            /\ fn.result.val.model_name = fn.model
  /\ fn.op = "initialize_engines" =>
       /\ fn.raised => ~fn.gemini_client
       /\ fn.raised <=> fn.cfg.gemini_api_key = ""
       /\ \A e \in DOMAIN fn.made : fn.made[e] <= 1
       /\ ~fn.raised => \A e \in DOMAIN fn.made : fn.made[e] = 1

\* initialize_engines was called a third time in a process whose engines the
\* first call constructed
C35_InitializedThrice ==
  /\ fn.op = "initialize_engines"
  /\ fn.calls = 3
  /\ fn.gemini_client
  /\ fn.transcription_engine


\* the WebSocket audio messages that reached the engine with the sample
\* sequence of the last process_audio request
SameSamplesOnWs ==
  {<<c, k>> \in Conns \X (1..MaxStimuli) :
     /\ k <= Len(ws[c].inbox)
     /\ ws[c].inbox[k].type = "audio"
     /\ ws[c].inbox[k].stt_calls > 0
     /\ last.op = "process_audio"
     /\ last.stt_called
     /\ ws[c].inbox[k].frame.obj.data = last.audio}

\* C36: for the same sample sequence the WebSocket audio path and
\* process_audio hand the transcription engine the same buffer, the
\* divide-by-32768 rescale of out-of-range samples included (the prompts
\* handed to the generator are compared by no state: neither path reaches it)
C36_SameBufferOnBothTransports ==
  \A m \in SameSamplesOnWs : ws[m[1]].inbox[m[2]].stt_input = last.stt_input

\* the same out-of-range samples were sent as a WebSocket audio message and as
\* a process_audio request, and both reached the engine
C36_SameSamplesOnBoth ==
  \E m \in SameSamplesOnWs : ArrayMax(last.audio) > 1


\* C37: is_question uses the marker list M and the minimum length n the
\* detector was constructed with, whatever their values: a text is a question
\* exactly when it has at least n characters and contains a marker of M, so
\* with n = 0 no text is too short and with M empty no text is a question
C37_SuppliedValuesUsed ==
  (/\ fn.op = "is_question"
   /\ fn.given.supplied = {"markers", "min_length"}
   /\ fn.text # None) =>
    (fn.result <=>
       /\ Len(fn.text) >= fn.given.min_length
       /\ \E k \in 1..Len(fn.given.markers) :
            Contains(Lower(fn.text), fn.given.markers[k]))

\* a detector constructed with an empty marker list and one constructed with
\* the minimum length 0 have been asked about a text
C37_FalsyValueSupplied ==
  /\ fn.op = "is_question"
  /\ fn.given.supplied = {"markers", "min_length"}
  /\ fn.text # None
  /\ fn.given.markers = <<>> \/ fn.given.min_length = 0


\* C38: once a WebSocket connection is CLOSED (auth rejection, client
\* disconnect or error), its handler processes no further inbound message,
\* emits no further outbound event and performs no further Context or History
\* operation: the connection stays as it is, and the tables change by REST
\* requests only
C38_ClosedIsTerminal ==
  [][\A c \in Conns :
       ws[c].state = "CLOSED" =>
         /\ ws'[c] = ws[c]
         /\ (interview_contexts' # interview_contexts
             \/ interview_history' # interview_history) => nreq' = nreq + 1]_vars

\* a connection was closed by the handler's except clause after a message, and
\* a REST request has been served
C38_ClosedAfterError ==
  \E c \in Conns :
    /\ ws[c].state = "CLOSED"
    /\ ws[c].close_code = 1000
    /\ Len(ws[c].inbox) > 0
    /\ nreq > 0


\* the session key the spec gives the bearer of `token`: the user's id for a
\* valid token of a user, the one fixed key of all other callers otherwise
KeyOfToken(token) ==
  IF \E u \in Users : token = TokenOf(u)
  THEN CHOOSE u \in Users : token = TokenOf(u)
  ELSE "anonymous"

\* C39: the session key of a REST request and of an open WebSocket connection
\* is the authenticated user's id when a valid token is presented and
\* "anonymous" otherwise, a missing and an invalid token alike, so that such
\* callers all share one key, which is no authenticated user's
C39_SessionKeyOfCaller ==
  /\ last.op \in RestOps \cup {"start_session"} =>
       /\ last.session_id =
            KeyOfToken(IF last.authorization.scheme = "Bearer "
                       THEN last.authorization.token ELSE <<>>)
       /\ last.session_id \in Users =>
            last.authorization = Bearer(TokenOf(last.session_id))
  /\ \A c \in Conns :
       ws[c].state = "OPEN" =>
         /\ ws[c].session_id = KeyOfToken(ws[c].token)
         /\ ws[c].session_id \in Users => ws[c].token = TokenOf(ws[c].session_id)

\* a REST request with an invalid token was served while a WebSocket
\* connection opened without a token is in its message loop
C39_InvalidAndMissingToken ==
  /\ last.op \in RestOps \cup {"start_session"}
  /\ last.authorization = Bearer(TOKEN_INVALID)
  /\ \E c \in Conns :
       /\ ws[c].state = "OPEN"
       /\ ws[c].token = <<>>

====
